---- MODULE Spec2Model ----
(***************************************************************************)
(* A model of the attack-graph store of maltoolbox (attackgraph.py,        *)
(* attacker.py, node.py): the node and attacker containers with their      *)
(* lookup indices, graph generation, compromise bookkeeping and            *)
(* serialization.  Python objects are handles into the functions `node'    *)
(* and `attacker'; Python lists are sequences of handles.                  *)
(***************************************************************************)
EXTENDS Integers, Sequences, FiniteSets, TLC

\* ------------------------------------------------------------------ bounds
MaxNodeObjs == 3        \* AttackGraphNode objects ever constructed
MaxAttackers == 2       \* Attacker objects ever constructed
MaxId == 1              \* largest id a caller supplies explicitly
MaxCalls == 4           \* calls made on one graph

\* ------------------------------------------------------- Python constants
NoneId == -1            \* `id: int = None'
NoneNode == 0           \* the handle that stands for Python's None
NoAsset == ""           \* `asset: Any = None'
None == <<>>            \* None in an Optional field; <<v>> is the value v
Some(v) == <<v>>

NodeObjs == 1..MaxNodeObjs
AttackerObjs == 1..MaxAttackers
SuppliedIds == {NoneId} \cup 0..MaxId

VARIABLES
    node,               \* handle -> the fields of that AttackGraphNode
    attacker,           \* handle -> the fields of that Attacker
    nalloc,             \* number of AttackGraphNode objects constructed
    aalloc,             \* number of Attacker objects constructed
    nodes,              \* AttackGraph.nodes
    id_to_node,         \* AttackGraph.id_to_node
    full_name_to_node,  \* AttackGraph.full_name_to_node
    attackers,          \* AttackGraph.attackers
    id_to_attacker,     \* AttackGraph.id_to_attacker
    next_node_id,       \* AttackGraph.next_node_id
    next_attacker_id,   \* AttackGraph.next_attacker_id
    model,              \* AttackGraph.model: <<>> for None, else <<m>>
    loaded,             \* what _from_dict(_to_dict()) gave, once it is called
    reach,              \* the Reachability Calculator's working state
    evaluation,         \* one call of _process_step_expression
    search,             \* one call of SearchPattern.find_matches
    result,             \* the last call: its name, arguments and outcome
    calls               \* number of calls made so far

vars == <<node, attacker, nalloc, aalloc, nodes, id_to_node,
          full_name_to_node, attackers, id_to_attacker, next_node_id,
          next_attacker_id, model, loaded, reach, evaluation, search,
          result, calls>>

\* what the calls on a graph leave alone
pureVars == <<evaluation, search>>

graphVars == <<nodes, id_to_node, full_name_to_node, attackers,
               id_to_attacker, next_node_id, next_attacker_id, model>>

\* ------------------------------------------------------- Python containers
EmptyDict == [k \in {} |-> 0]
DictPut(d, k, v) == [x \in (DOMAIN d) \cup {k} |-> IF x = k THEN v ELSE d[x]]
DictDel(d, k) == [x \in (DOMAIN d) \ {k} |-> d[x]]
\* dict.get(k): None when the key is absent
DictGet(d, k) == IF k \in DOMAIN d THEN d[k] ELSE NoneNode

SeqDel(s, i) == SubSeq(s, 1, i - 1) \o SubSeq(s, i + 1, Len(s))
Range(s) == {s[i] : i \in DOMAIN s}
PyMax(a, b) == IF a >= b THEN a ELSE b

\* --------------------------------------------------------- AttackGraphNode
\* The dataclass defaults of AttackGraphNode for the fields a caller left out.
NewNode(type, name, asset) ==
    [type |-> type, name |-> name, ttc |-> None, id |-> NoneId,
     asset |-> asset, children |-> <<>>, parents |-> <<>>,
     defense_status |-> None, existence_status |-> None,
     is_viable |-> TRUE, is_necessary |-> TRUE, compromised_by |-> <<>>,
     tags |-> [kind |-> "list", items |-> <<>>], mitre_info |-> None,
     attributes |-> <<>>, extras |-> None, reachable_by |-> {}]

\* The dataclass of Attacker.  entry_points_is_reached records that
\* entry_points and reached_attack_steps are one and the same list object.
NewAttacker(name) ==
    [name |-> name, entry_points |-> <<>>, reached_attack_steps |-> <<>>,
     id |-> NoneId, entry_points_is_reached |-> FALSE,
     reachable_attack_steps |-> {}]

\* The name a caller of add_attacker constructs Attacker object h with.
AttackerName(h) == "Attacker" \o ToString(h)

IdStr(i) == IF i = NoneId THEN "None" ELSE ToString(i)

\* AttackGraphNode.get_full_name of the node record n
get_full_name(n) ==
    IF n.asset # NoAsset
    THEN n.asset \o ":" \o n.name
    ELSE IdStr(n.id) \o ":" \o n.name

\* attacker.entry_points, read through the alias when there is one
EntryPoints(a) ==
    IF a.entry_points_is_reached THEN a.reached_attack_steps
    ELSE a.entry_points

\* ------------------------------------------------- dataclass __eq__ and in
\* x == y for two AttackGraphNode objects as list.remove and `in' decide
\* it: the same object, or all dataclass fields equal.  The list fields are
\* compared item by item; two different objects are equal only when their
\* ids and names agree, and no list here holds such a pair at the same
\* position, so the items are compared as objects.
NodeEq(nd, x, y) ==
    \/ x = y
    \/ /\ x # NoneNode /\ y # NoneNode
       /\ nd[x].type = nd[y].type
       /\ nd[x].name = nd[y].name
       /\ nd[x].ttc = nd[y].ttc
       /\ nd[x].id = nd[y].id
       /\ nd[x].asset = nd[y].asset
       /\ nd[x].children = nd[y].children
       /\ nd[x].parents = nd[y].parents
       /\ nd[x].defense_status = nd[y].defense_status
       /\ nd[x].existence_status = nd[y].existence_status
       /\ nd[x].is_viable = nd[y].is_viable
       /\ nd[x].is_necessary = nd[y].is_necessary
       /\ nd[x].compromised_by = nd[y].compromised_by
       /\ nd[x].tags = nd[y].tags
       /\ nd[x].mitre_info = nd[y].mitre_info
       /\ nd[x].attributes = nd[y].attributes
       /\ nd[x].extras = nd[y].extras

\* a == b for two Attacker objects: the same object, or the dataclass
\* fields name, entry_points, reached_attack_steps and id equal.
AttackerEq(at, a, b) ==
    \/ a = b
    \/ /\ at[a].name = at[b].name
       /\ EntryPoints(at[a]) = EntryPoints(at[b])
       /\ at[a].reached_attack_steps = at[b].reached_attack_steps
       /\ at[a].id = at[b].id

SetMin(S) == CHOOSE i \in S : \A j \in S : i <= j

\* index of the first item of s equal to node x, 0 when there is none
NodeIndex(nd, s, x) ==
    LET hits == {i \in DOMAIN s : NodeEq(nd, s[i], x)}
    IN  IF hits = {} THEN 0 ELSE SetMin(hits)

\* index of the first item of s equal to attacker a, 0 when there is none
AttackerIndex(at, s, a) ==
    LET hits == {i \in DOMAIN s : AttackerEq(at, s[i], a)}
    IN  IF hits = {} THEN 0 ELSE SetMin(hits)

\* ------------------------------------------------------------ the last call
\* The record of a call: its name, the exception it raised (NoError for
\* none), the node and attacker it was given, the id the caller supplied to
\* add_node / add_attacker, and whether it logged that it does nothing.
OutcomeOf(op, raised, n, a, id, noop) ==
    [op |-> op, raised |-> raised, node |-> n, attacker |-> a, id |-> id,
     noop |-> noop]

Outcome(op, raised, n, a) == OutcomeOf(op, raised, n, a, NoneId, FALSE)

OutcomeId(op, raised, n, a, id) == OutcomeOf(op, raised, n, a, id, FALSE)

NoError == ""

\* ---------------------------------------------------------------- lookups
get_node_by_id(node_id) == DictGet(id_to_node, node_id)
get_node_by_full_name(full_name) == DictGet(full_name_to_node, full_name)
get_attacker_by_id(attacker_id) == DictGet(id_to_attacker, attacker_id)

\* One more call on the graph, while the bound on calls allows it.
OneCall ==
    /\ calls < MaxCalls
    /\ calls' = calls + 1
    \* a constructor that raised has left no graph to call anything on
    /\ ~(result.op = "_generate_graph" /\ result.raised # NoError)
    \* calls are synchronous: none starts while the calculator runs
    /\ reach.phase = "idle"
    \* the run ends with the inspection of the loaded graph
    /\ result.op # "_from_dict"

\* The graph _from_dict builds is a second AttackGraph with objects of its
\* own: its nodes are the records of `nodes', and children and parents hold
\* positions in that list.
NotLoaded == [status |-> "unset", nodes |-> <<>>, id_to_node |-> EmptyDict,
              full_name_to_node |-> EmptyDict, attackers |-> <<>>,
              next_node_id |-> 0]

\* No step expression is being evaluated.
NoEvaluation == [done |-> FALSE]

\* No pattern is being searched for.
NoSearch == [done |-> FALSE]

\* The calculator at rest: no work queue, no marks.  before holds the
\* reachability marks the last invocation found when it started.
ReachIdle == [phase |-> "idle", queue |-> {}, marked |-> {}, before |-> {}]

\* -------------------------------------------------------------------- Init
Init ==
    /\ node = [h \in NodeObjs |-> NewNode("or", "", NoAsset)]
    /\ attacker = [h \in AttackerObjs |-> NewAttacker(AttackerName(h))]
    /\ nalloc = 0
    /\ aalloc = 0
    /\ nodes = <<>>
    /\ id_to_node = EmptyDict
    /\ full_name_to_node = EmptyDict
    /\ attackers = <<>>
    /\ id_to_attacker = EmptyDict
    /\ next_node_id = 0
    /\ next_attacker_id = 0
    /\ model = <<>>
    /\ loaded = NotLoaded
    /\ reach = ReachIdle
    /\ evaluation = NoEvaluation
    /\ search = NoSearch
    /\ result = Outcome("__init__", NoError, NoneNode, 0)
    /\ calls = 0

\* ---------------------------------------------------------------- add_node
\* The nodes a caller constructs and hands to add_node.
NodeTemplates ==
    { NewNode("or", "a", NoAsset),
      [NewNode("defense", "b", "A1") EXCEPT
          !.ttc = Some("Exponential"),
          !.defense_status = Some(10),
          !.is_viable = FALSE,
          !.tags = [kind |-> "list", items |-> <<"hidden">>],
          !.mitre_info = Some("T1059"),
          !.extras = Some("reward")] }

\* `node_id or self.next_node_id'
AssignedNodeId(node_id) ==
    IF node_id = NoneId \/ node_id = 0 THEN next_node_id ELSE node_id

\* AttackGraph.add_node(node, node_id) on the freshly constructed node h
add_node(h, tmpl, node_id) ==
    LET nid == AssignedNodeId(node_id)
        n == [tmpl EXCEPT !.id = nid]
    IN  /\ nodes' = Append(nodes, h)
        /\ node' = [node EXCEPT ![h] = n]
        /\ IF nid \in DOMAIN id_to_node
           THEN /\ result' = OutcomeId("add_node", "ValueError", h, 0,
                                       node_id)
                /\ UNCHANGED <<next_node_id, id_to_node, full_name_to_node>>
           ELSE /\ next_node_id' = PyMax(nid + 1, next_node_id)
                /\ id_to_node' = DictPut(id_to_node, nid, h)
                /\ full_name_to_node' =
                       DictPut(full_name_to_node, get_full_name(n), h)
                /\ result' = OutcomeId("add_node", NoError, h, 0, node_id)

AddNode ==
    /\ OneCall
    /\ nalloc < MaxNodeObjs
    /\ \E tmpl \in NodeTemplates, node_id \in SuppliedIds :
          add_node(nalloc + 1, tmpl, node_id)
    /\ nalloc' = nalloc + 1
    /\ UNCHANGED <<reach, loaded, pureVars,
                   attacker, aalloc, attackers, id_to_attacker,
                   next_attacker_id, model>>

\* ------------------------------------------------------------- remove_node
\* `for child in node.children: child.parents.remove(node)' from item i on;
\* err is set when list.remove finds nothing to remove (ValueError).
RECURSIVE DetachFromChildren(_, _, _)
DetachFromChildren(nd, n, i) ==
    IF i > Len(nd[n].children) THEN [nd |-> nd, err |-> FALSE]
    ELSE LET child == nd[n].children[i]
             k == NodeIndex(nd, nd[child].parents, n)
         IN  IF k = 0 THEN [nd |-> nd, err |-> TRUE]
             ELSE DetachFromChildren(
                      [nd EXCEPT ![child].parents = SeqDel(@, k)], n, i + 1)

\* `for parent in node.parents: parent.children.remove(node)' from item i on
RECURSIVE DetachFromParents(_, _, _)
DetachFromParents(nd, n, i) ==
    IF i > Len(nd[n].parents) THEN [nd |-> nd, err |-> FALSE]
    ELSE LET parent == nd[n].parents[i]
             k == NodeIndex(nd, nd[parent].children, n)
         IN  IF k = 0 THEN [nd |-> nd, err |-> TRUE]
             ELSE DetachFromParents(
                      [nd EXCEPT ![parent].children = SeqDel(@, k)], n, i + 1)

\* AttackGraph.remove_node(node)
remove_node(n) ==
    LET r1 == DetachFromChildren(node, n, 1)
        r2 == DetachFromParents(r1.nd, n, 1)
        k == NodeIndex(r2.nd, nodes, n)
        nid == node[n].id
        fname == get_full_name(node[n])
    IN  IF r1.err
        THEN /\ node' = r1.nd
             /\ result' = Outcome("remove_node", "ValueError", n, 0)
             /\ UNCHANGED <<nodes, id_to_node, full_name_to_node>>
        ELSE IF r2.err
        THEN /\ node' = r2.nd
             /\ result' = Outcome("remove_node", "ValueError", n, 0)
             /\ UNCHANGED <<nodes, id_to_node, full_name_to_node>>
        ELSE IF k = 0
        THEN /\ node' = r2.nd
             /\ result' = Outcome("remove_node", "ValueError", n, 0)
             /\ UNCHANGED <<nodes, id_to_node, full_name_to_node>>
        ELSE IF nid \notin DOMAIN id_to_node
        THEN /\ node' = r2.nd
             /\ nodes' = SeqDel(nodes, k)
             /\ result' = Outcome("remove_node", "KeyError", n, 0)
             /\ UNCHANGED <<id_to_node, full_name_to_node>>
        ELSE IF fname \notin DOMAIN full_name_to_node
        THEN /\ node' = r2.nd
             /\ nodes' = SeqDel(nodes, k)
             /\ id_to_node' = DictDel(id_to_node, nid)
             /\ result' = Outcome("remove_node", "KeyError", n, 0)
             /\ UNCHANGED full_name_to_node
        ELSE /\ node' = r2.nd
             /\ nodes' = SeqDel(nodes, k)
             /\ id_to_node' = DictDel(id_to_node, nid)
             /\ full_name_to_node' = DictDel(full_name_to_node, fname)
             /\ result' = Outcome("remove_node", NoError, n, 0)

RemoveNode ==
    /\ OneCall
    /\ \E n \in Range(nodes) : remove_node(n)
    /\ UNCHANGED <<reach, loaded, pureVars,
                   attacker, nalloc, aalloc, attackers, id_to_attacker,
                   next_node_id, next_attacker_id, model>>

\* --------------------------------------------------------- _generate_graph
Flatten(ss) ==
    LET RECURSIVE F(_)
        F(i) == IF i > Len(ss) THEN <<>> ELSE ss[i] \o F(i + 1)
    IN  F(1)

\* One resolved step expression: what _process_step_expression returns for
\* it, the target assets (by name) and the attack step name.
Reach(targets, attack_step) ==
    [targets |-> targets, attack_step |-> attack_step]

\* One attack step of an asset: its name, type and, per asset of the model,
\* the resolved `reaches' step expressions.
Step(name, type, reaches) ==
    [name |-> name, type |-> type, reaches |-> reaches]

\* One entry point of an attacker of the model: an asset and a step name.
EntryPoint(asset, attack_step) == [asset |-> asset, attack_step |-> attack_step]

\* One attacker of the model: its name and its entry points in order.
AttackerInfo(name, entry_points) == [name |-> name, entry_points |-> entry_points]

\* The (language, model) pairs graphs are generated from: the assets in
\* model order, the attack-step table of their (common) asset type, and the
\* model's attackers, each with its name and the list of its entry points.
GenModels ==
    { \* A1:s -> A1:t
      [assets |-> <<"A1">>,
       steps |-> << Step("s", "or", [a \in {"A1"} |-> <<Reach(<<"A1">>, "t")>>]),
                    Step("t", "and", [a \in {"A1"} |-> <<>>]) >>,
       attackers |-> << AttackerInfo("Attacker1", <<EntryPoint("A1", "s")>>),
                        AttackerInfo("Attacker2", <<EntryPoint("A1", "t"),
                                                    EntryPoint("A1", "s")>>) >>],
      \* A1:s -> A1:s (itself) and twice A1:s -> A1:t
      [assets |-> <<"A1">>,
       steps |-> << Step("s", "or", [a \in {"A1"} |->
                            <<Reach(<<"A1">>, "s"),
                              Reach(<<"A1", "A1">>, "t")>>]),
                    Step("t", "and", [a \in {"A1"} |-> <<>>]) >>,
       attackers |-> << AttackerInfo("Attacker1", <<EntryPoint("A1", "s"),
                                                    EntryPoint("A1", "t")>>) >>],
      \* A1:s -> A2:s -> A1:s over an association field
      [assets |-> <<"A1", "A2">>,
       steps |-> << Step("s", "or",
                         [a \in {"A1", "A2"} |->
                            IF a = "A1" THEN <<Reach(<<"A2">>, "s")>>
                            ELSE <<Reach(<<"A1">>, "s")>>]) >>,
       \* the first attacker names a step `x' that A1 does not have
       attackers |-> << AttackerInfo("Attacker1", <<EntryPoint("A1", "x"),
                                                    EntryPoint("A1", "s")>>),
                        AttackerInfo("Attacker2", <<EntryPoint("A2", "s")>>) >>],
      \* A1:s -> A1:t, then a step name `u' the asset does not have
      [assets |-> <<"A1">>,
       steps |-> << Step("s", "or", [a \in {"A1"} |->
                            <<Reach(<<"A1">>, "t"), Reach(<<"A1">>, "u")>>]),
                    Step("t", "and", [a \in {"A1"} |-> <<>>]) >>,
       attackers |-> <<>>],
      \* the single step A1:s, leading nowhere
      [assets |-> <<"A1">>,
       steps |-> << Step("s", "or", [a \in {"A1"} |-> <<>>]) >>,
       attackers |-> << AttackerInfo("Attacker1", <<EntryPoint("A1", "s")>>) >>] }

\* The first pass stopping after the first asset of the model.
GeneratedNodesFirstAsset(m) ==
    [j \in DOMAIN m.steps |->
        [NewNode(m.steps[j].type, m.steps[j].name, m.assets[1])
           EXCEPT !.attributes = m.steps[j].reaches[m.assets[1]]]]

\* The nodes of the first pass, in creation order: one per asset and step.
GeneratedNodes(m) ==
    Flatten([i \in DOMAIN m.assets |->
                [j \in DOMAIN m.steps |->
                    [NewNode(m.steps[j].type, m.steps[j].name, m.assets[i])
                       EXCEPT !.attributes = m.steps[j].reaches[m.assets[i]]]]])

\* The graph after add_node of the items i.. of the freshly built nodes ns;
\* add_node never raises here because next_node_id is always free.
RECURSIVE AddGenerated(_, _, _)
AddGenerated(g, ns, i) ==
    IF i > Len(ns) THEN g
    ELSE LET h == g.nalloc + 1
             n == [ns[i] EXCEPT !.id = g.next_node_id]
         IN  AddGenerated(
                 [nalloc |-> h,
                  node |-> [g.node EXCEPT ![h] = n],
                  nodes |-> Append(g.nodes, h),
                  next_node_id |-> PyMax(n.id + 1, g.next_node_id),
                  id_to_node |-> DictPut(g.id_to_node, n.id, h),
                  full_name_to_node |->
                      DictPut(g.full_name_to_node, get_full_name(n), h)],
                 ns, i + 1)

\* The links the second pass makes, in order: <<source node, target full
\* name>> for every node, step expression and target asset.
LinkPairs(nd, ns) ==
    Flatten([k \in DOMAIN ns |->
        Flatten([j \in DOMAIN nd[ns[k]].attributes |->
            LET e == nd[ns[k]].attributes[j]
            IN  [t \in DOMAIN e.targets |->
                    <<ns[k], e.targets[t] \o ":" \o e.attack_step>>]])])

\* Link with the second append left out: the child does not learn its parent.
LinkChildOnly(nd, src, target_node) ==
    [nd EXCEPT ![src].children = Append(@, target_node)]

\* `ag_node.children.append(target_node)' and
\* `target_node.parents.append(ag_node)'
Link(nd, src, target_node) ==
    LET nd1 == [nd EXCEPT ![src].children = Append(@, target_node)]
    IN  [nd1 EXCEPT ![target_node].parents = Append(@, src)]

\* The second pass from link i on: err is set when a target is not found.
RECURSIVE LinkNodes(_, _, _, _)
LinkNodes(nd, byname, pairs, i) ==
    IF i > Len(pairs) THEN [nd |-> nd, err |-> FALSE]
    ELSE LET src == pairs[i][1]
             target_node == DictGet(byname, pairs[i][2])
         IN  IF target_node = NoneNode THEN [nd |-> nd, err |-> TRUE]
             ELSE LinkNodes(Link(nd, src, target_node), byname, pairs, i + 1)

\* The message of the failure names target_node_id, which is not defined.
LinkFailure == "NameError"

\* AttackGraph._generate_graph() with the model m, self.nodes being ns
\* when it starts; op is the call it is made in.
GenerateOn(m, ns, op) ==
    LET g0 == [nalloc |-> nalloc, node |-> node, nodes |-> ns,
               next_node_id |-> next_node_id, id_to_node |-> id_to_node,
               full_name_to_node |-> full_name_to_node]
        g1 == AddGenerated(g0, GeneratedNodes(m), 1)
        r == LinkNodes(g1.node, g1.full_name_to_node,
                       LinkPairs(g1.node, g1.nodes), 1)
    IN  /\ model' = <<m>>
        /\ nalloc' = g1.nalloc
        /\ nodes' = g1.nodes
        /\ next_node_id' = g1.next_node_id
        /\ id_to_node' = g1.id_to_node
        /\ full_name_to_node' = g1.full_name_to_node
        /\ node' = r.nd
        /\ result' = Outcome(op, IF r.err THEN LinkFailure ELSE NoError,
                             NoneNode, 0)

\* AttackGraph._generate_graph() as the constructor calls it
generate_graph(m) == GenerateOn(m, nodes, "_generate_graph")

\* AttackGraph.regenerate_graph(): `self.nodes = []', `self.attackers = []'
\* and _generate_graph(); the indices and the id counters stay as they are.
\* Without a model `self.model.assets' raises AttributeError.
regenerate_graph ==
    /\ attackers' = <<>>
    /\ IF model = <<>>
       THEN /\ nodes' = <<>>
            /\ result' = Outcome("regenerate_graph", "AttributeError",
                                 NoneNode, 0)
            /\ UNCHANGED <<node, nalloc, id_to_node, full_name_to_node,
                           next_node_id, model>>
       ELSE GenerateOn(model[1], <<>>, "regenerate_graph")

\* AttackGraph(lang_graph, model): the constructor generates the graph.
GenerateGraph ==
    /\ OneCall
    /\ result.op = "__init__"
    /\ \E m \in GenModels :
          /\ nalloc + Len(GeneratedNodes(m)) <= MaxNodeObjs
          /\ generate_graph(m)
    /\ UNCHANGED <<reach, loaded, pureVars,
                   attacker, aalloc, attackers, id_to_attacker,
                   next_attacker_id>>

\* graph.regenerate_graph()
RegenerateGraph ==
    /\ OneCall
    /\ model # <<>> => nalloc + Len(GeneratedNodes(model[1])) <= MaxNodeObjs
    /\ regenerate_graph
    /\ UNCHANGED <<reach, loaded, pureVars, attacker, aalloc, id_to_attacker,
                   next_attacker_id>>

\* ------------------------------------------- compromise / undo_compromise
\* AttackGraphNode.is_compromised_by: `attacker in self.compromised_by'
is_compromised_by(nd, at, n, a) ==
    AttackerIndex(at, nd[n].compromised_by, a) # 0

\* Attacker.compromise(node): the objects afterwards; noop is the branch
\* that logs `Do nothing'.  The debug message reads node.id, which raises
\* AttributeError when node is None.
compromise(nd, at, a, n) ==
    IF n = NoneNode
    THEN [nd |-> nd, at |-> at, err |-> "AttributeError", noop |-> FALSE]
    ELSE IF is_compromised_by(nd, at, n, a)
    THEN [nd |-> nd, at |-> at, err |-> NoError, noop |-> TRUE]
    ELSE [nd |-> [nd EXCEPT ![n].compromised_by = Append(@, a)],
          at |-> [at EXCEPT ![a].reached_attack_steps = Append(@, n)],
          err |-> NoError, noop |-> FALSE]

\* Attacker.undo_compromise(node): the objects afterwards; list.remove
\* raises ValueError when the node is not in reached_attack_steps, and the
\* debug message AttributeError when node is None.
undo_compromise(nd, at, a, n) ==
    IF n = NoneNode
    THEN [nd |-> nd, at |-> at, err |-> "AttributeError", noop |-> FALSE]
    ELSE IF ~is_compromised_by(nd, at, n, a)
    THEN [nd |-> nd, at |-> at, err |-> NoError, noop |-> TRUE]
    ELSE LET nd1 == [nd EXCEPT ![n].compromised_by =
                        SeqDel(@, AttackerIndex(at, @, a))]
             k == NodeIndex(nd1, at[a].reached_attack_steps, n)
         IN  IF k = 0
             THEN [nd |-> nd1, at |-> at, err |-> "ValueError",
                   noop |-> FALSE]
             ELSE [nd |-> nd1,
                   at |-> [at EXCEPT ![a].reached_attack_steps = SeqDel(@, k)],
                   err |-> NoError, noop |-> FALSE]

Compromise ==
    /\ OneCall
    /\ \E a \in 1..aalloc, n \in 1..nalloc :
          LET r == compromise(node, attacker, a, n)
          IN  /\ node' = r.nd
              /\ attacker' = r.at
              /\ result' = OutcomeOf("compromise", r.err, n, a, NoneId,
                                      r.noop)
    /\ UNCHANGED <<nalloc, aalloc, graphVars, loaded,
                   pureVars, reach>>

UndoCompromise ==
    /\ OneCall
    /\ \E a \in 1..aalloc, n \in 1..nalloc :
          LET r == undo_compromise(node, attacker, a, n)
          IN  /\ node' = r.nd
              /\ attacker' = r.at
              /\ result' = OutcomeOf("undo_compromise", r.err, n, a,
                                      NoneId, r.noop)
    /\ UNCHANGED <<nalloc, aalloc, graphVars, loaded,
                   pureVars, reach>>

\* ------------------------------------------------------------ add_attacker
\* The id lists a caller passes as entry_points and reached_attack_steps.
IdLists == { <<>>, <<0, 1>> }

\* `for node_id in reached_attack_steps: attacker.compromise(node)' from
\* item i on; compromise(None) fails on `node.id' (AttributeError).
RECURSIVE CompromiseIds(_, _, _, _, _)
CompromiseIds(nd, at, a, ids, i) ==
    IF i > Len(ids) THEN [nd |-> nd, at |-> at, err |-> NoError]
    ELSE LET n == get_node_by_id(ids[i])
         IN  IF n = NoneNode
             THEN [nd |-> nd, at |-> at, err |-> "AttributeError"]
             ELSE LET r == compromise(nd, at, a, n)
                  IN  CompromiseIds(r.nd, r.at, a, ids, i + 1)

\* `attacker.entry_points.append(node)': through the alias when there is one
AppendEntryPoint(arec, n) ==
    IF arec.entry_points_is_reached
    THEN [arec EXCEPT !.reached_attack_steps = Append(@, n)]
    ELSE [arec EXCEPT !.entry_points = Append(@, n)]

\* `for node_id in entry_points: attacker.entry_points.append(node)'
RECURSIVE AppendEntryPoints(_, _, _)
AppendEntryPoints(arec, ids, i) ==
    IF i > Len(ids) THEN arec
    ELSE AppendEntryPoints(AppendEntryPoint(arec, get_node_by_id(ids[i])),
                           ids, i + 1)

\* AttackGraph.add_attacker(attacker, attacker_id, entry_points,
\* reached_attack_steps): the objects and the graph's attacker fields after
add_attacker(nd, at, g, a, attacker_id, entry_points, reached_attack_steps) ==
    LET aid == IF attacker_id = NoneId \/ attacker_id = 0
               THEN g.next_attacker_id ELSE attacker_id
        at1 == [at EXCEPT ![a].id = aid]
    IN  IF aid \in DOMAIN g.id_to_attacker
        THEN [nd |-> nd, at |-> at1, g |-> g, err |-> "ValueError"]
        ELSE LET next == PyMax(aid + 1, g.next_attacker_id)
                 r == CompromiseIds(nd, at1, a, reached_attack_steps, 1)
             IN  IF r.err # NoError
                 THEN [nd |-> r.nd, at |-> r.at,
                       g |-> [g EXCEPT !.next_attacker_id = next],
                       err |-> r.err]
                 ELSE [nd |-> r.nd,
                       at |-> [r.at EXCEPT ![a] =
                                  AppendEntryPoints(@, entry_points, 1)],
                       g |-> [next_attacker_id |-> next,
                              attackers |-> Append(g.attackers, a),
                              id_to_attacker |->
                                  DictPut(g.id_to_attacker, aid, a)],
                       err |-> NoError]

AttackerFields ==
    [next_attacker_id |-> next_attacker_id, attackers |-> attackers,
     id_to_attacker |-> id_to_attacker]

\* The Attacker object passed is one constructed for the call (aalloc + 1)
\* or one that exists already: attached, added or removed before.
AddAttacker ==
    /\ OneCall
    /\ \E a \in 1..(aalloc + 1), attacker_id \in SuppliedIds,
          eps \in IdLists, ras \in IdLists :
          LET r == add_attacker(node, attacker, AttackerFields, a,
                                attacker_id, eps, ras)
          IN  /\ a <= MaxAttackers
              /\ node' = r.nd
              /\ attacker' = r.at
              /\ next_attacker_id' = r.g.next_attacker_id
              /\ attackers' = r.g.attackers
              /\ id_to_attacker' = r.g.id_to_attacker
              /\ aalloc' = PyMax(a, aalloc)
              /\ result' = OutcomeId("add_attacker", r.err, NoneNode, a,
                                      attacker_id)
    /\ UNCHANGED <<reach, loaded, pureVars,
                   nalloc, nodes, id_to_node, full_name_to_node,
                   next_node_id, model>>

\* -------------------------------------------------------- attach_attackers
\* The message of the warning for a missing entry point names
\* attack_step_id, which is not defined.
MissingEntryPointFailure == "NameError"

\* The entry-point loop of one attacker from item i on: compromise every
\* entry point found by full name.
RECURSIVE CompromiseEntryPoints(_, _, _, _, _)
CompromiseEntryPoints(nd, at, a, eps, i) ==
    IF i > Len(eps) THEN [nd |-> nd, at |-> at, err |-> NoError]
    ELSE LET full_name == eps[i].asset \o ":" \o eps[i].attack_step
             ag_node == get_node_by_full_name(full_name)
         IN  IF ag_node = NoneNode
             THEN [nd |-> nd, at |-> at, err |-> MissingEntryPointFailure]
             ELSE LET r == compromise(nd, at, a, ag_node)
                  IN  CompromiseEntryPoints(r.nd, r.at, a, eps, i + 1)

\* The loop over the model's attackers from item i on; s carries the
\* objects, the graph's attacker fields and the number of Attacker objects.
RECURSIVE AttachFrom(_, _, _)
AttachFrom(s, infos, i) ==
    IF i > Len(infos) THEN s
    ELSE LET a == s.aalloc + 1
             \* Attacker(name = attacker_info.name, ...)
             named == [s.at EXCEPT ![a] = NewAttacker(infos[i].name)]
             r1 == add_attacker(s.nd, named, s.g, a, NoneId, <<>>, <<>>)
             r2 == CompromiseEntryPoints(r1.nd, r1.at, a,
                                         infos[i].entry_points, 1)
         IN  IF r1.err # NoError
             THEN [nd |-> r1.nd, at |-> r1.at, g |-> r1.g, aalloc |-> a,
                   err |-> r1.err]
             ELSE IF r2.err # NoError
             THEN [nd |-> r2.nd, at |-> r2.at, g |-> r1.g, aalloc |-> a,
                   err |-> r2.err]
             ELSE AttachFrom(
                      [nd |-> r2.nd,
                       \* attacker.entry_points = attacker.reached_attack_steps
                       at |-> [r2.at EXCEPT ![a].entry_points_is_reached = TRUE,
                                            ![a].entry_points = <<>>],
                       g |-> r1.g, aalloc |-> a, err |-> NoError],
                      infos, i + 1)

\* AttackGraph.attach_attackers()
AttachAttackers ==
    /\ OneCall
    /\ model # <<>>
    /\ aalloc + Len(model[1].attackers) <= MaxAttackers
    /\ LET r == AttachFrom([nd |-> node, at |-> attacker, g |-> AttackerFields,
                            aalloc |-> aalloc, err |-> NoError],
                           model[1].attackers, 1)
       IN  /\ node' = r.nd
           /\ attacker' = r.at
           /\ aalloc' = r.aalloc
           /\ next_attacker_id' = r.g.next_attacker_id
           /\ attackers' = r.g.attackers
           /\ id_to_attacker' = r.g.id_to_attacker
           /\ result' = Outcome("attach_attackers", r.err, NoneNode, 0)
    /\ UNCHANGED <<reach, loaded, pureVars,
                   nalloc, nodes, id_to_node, full_name_to_node,
                   next_node_id, model>>

\* --------------------------------------------------------- remove_attacker
\* `for node in attacker.reached_attack_steps: attacker.undo_compromise(node)'
\* from position i on: the loop reads the list it is shrinking by position.
RECURSIVE UndoAll(_, _, _, _)
UndoAll(nd, at, a, i) ==
    IF i > Len(at[a].reached_attack_steps)
    THEN [nd |-> nd, at |-> at, err |-> NoError, noop |-> FALSE]
    ELSE LET r == undo_compromise(nd, at, a, at[a].reached_attack_steps[i])
         IN  IF r.err # NoError THEN r
             ELSE UndoAll(r.nd, r.at, a, i + 1)

\* AttackGraph.remove_attacker(attacker)
remove_attacker(a) ==
    LET r == UndoAll(node, attacker, a, 1)
        k == AttackerIndex(r.at, attackers, a)
        aid == attacker[a].id
    IN  /\ node' = r.nd
        /\ attacker' = r.at
        /\ IF r.err # NoError
           THEN /\ result' = Outcome("remove_attacker", r.err, NoneNode, a)
                /\ UNCHANGED <<attackers, id_to_attacker>>
           ELSE IF k = 0
           THEN /\ result' = Outcome("remove_attacker", "ValueError",
                                     NoneNode, a)
                /\ UNCHANGED <<attackers, id_to_attacker>>
           ELSE IF aid \notin DOMAIN id_to_attacker
           THEN /\ attackers' = SeqDel(attackers, k)
                /\ result' = Outcome("remove_attacker", "KeyError",
                                     NoneNode, a)
                /\ UNCHANGED id_to_attacker
           ELSE /\ attackers' = SeqDel(attackers, k)
                /\ id_to_attacker' = DictDel(id_to_attacker, aid)
                /\ result' = Outcome("remove_attacker", NoError, NoneNode, a)

RemoveAttacker ==
    /\ OneCall
    /\ \E a \in 1..aalloc : remove_attacker(a)
    /\ UNCHANGED <<reach, loaded, pureVars,
                   nalloc, aalloc, nodes, id_to_node, full_name_to_node,
                   next_node_id, next_attacker_id, model>>

\* ------------------------------------------------------ _to_dict, _from_dict
\* str(x) of a float, kept here in tenths: 10 is 1.0 and prints as "1.0"
PyStrFloat(f) == ToString(f \div 10) \o "." \o ToString(f % 10)

\* float(s) of such a text
PyFloat(s) == CHOOSE f \in 0..20 : PyStrFloat(f) = s

\* str(x) of a bool
PyStrBool(b) == IF b THEN "True" ELSE "False"

\* str(x) of a list of str: "['a', 'b']"
PyStrList(items) ==
    LET RECURSIVE J(_)
        J(i) == IF i > Len(items) THEN ""
                ELSE (IF i > 1 THEN ", " ELSE "")
                     \o "'" \o items[i] \o "'" \o J(i + 1)
    IN  "[" \o J(1) \o "]"

\* AttackGraphNode.to_dict() of the node record n; a key the dict does not
\* have is None here, one it has is Some(value).
NodeToDict(nd, at, n) ==
    [id |-> n.id, type |-> n.type, name |-> n.name, ttc |-> n.ttc,
     children |-> [i \in DOMAIN n.children |-> get_full_name(nd[n.children[i]])],
     parents |-> [i \in DOMAIN n.parents |-> get_full_name(nd[n.parents[i]])],
     compromised_by |->
         [i \in DOMAIN n.compromised_by |-> at[n.compromised_by[i]].name],
     asset |-> IF n.asset # NoAsset THEN Some(n.asset) ELSE None,
     defense_status |-> IF n.defense_status # None
                        THEN Some(PyStrFloat(n.defense_status[1])) ELSE None,
     existence_status |-> IF n.existence_status # None
                          THEN Some(PyStrBool(n.existence_status[1]))
                          ELSE None,
     is_viable |-> Some(PyStrBool(n.is_viable)),
     is_necessary |-> Some(PyStrBool(n.is_necessary)),
     mitre_info |-> n.mitre_info,
     tags |-> IF n.tags.items # <<>> THEN Some(PyStrList(n.tags.items))
              ELSE None,
     extra |-> n.extras]

\* Attacker.to_dict() of the attacker record a; None.get_full_name() raises
\* AttributeError when an entry point is None.
AttackerToDict(nd, a) ==
    [err |-> IF NoneNode \in Range(EntryPoints(a)) \cup
                             Range(a.reached_attack_steps)
             THEN "AttributeError" ELSE NoError,
     id |-> a.id, name |-> a.name,
     entry_points |-> [i \in DOMAIN EntryPoints(a) |->
                          IF EntryPoints(a)[i] = NoneNode THEN ""
                          ELSE get_full_name(nd[EntryPoints(a)[i]])],
     reached_attack_steps |->
         [i \in DOMAIN a.reached_attack_steps |->
             IF a.reached_attack_steps[i] = NoneNode THEN ""
             ELSE get_full_name(nd[a.reached_attack_steps[i]])]]

\* AttackGraph._to_dict()
to_dict ==
    LET ads == [i \in DOMAIN attackers |->
                   AttackerToDict(node, attacker[attackers[i]])]
    IN  [err |-> IF \E i \in DOMAIN ads : ads[i].err # NoError
                 THEN "AttributeError" ELSE NoError,
         attack_steps |-> [i \in DOMAIN nodes |->
                              NodeToDict(node, attacker, node[nodes[i]])],
         attackers |-> ads]

\* The node _from_dict constructs from node_dict d and hands to add_node,
\* which gives it the id next_id of the new graph.
LoadedNode(d, next_id) ==
    [NewNode(d.type, d.name, NoAsset) EXCEPT
        !.ttc = d.ttc,
        !.defense_status = IF d.defense_status # None
                           THEN Some(PyFloat(d.defense_status[1])) ELSE None,
        !.existence_status = IF d.existence_status # None
                             THEN Some(d.existence_status[1] = "True")
                             ELSE None,
        !.is_viable = IF d.is_viable # None THEN d.is_viable[1] = "True"
                      ELSE TRUE,
        !.is_necessary = IF d.is_necessary # None
                         THEN d.is_necessary[1] = "True" ELSE TRUE,
        !.mitre_info = d.mitre_info,
        \* the text of the list is kept as it is, a str
        !.tags = IF d.tags # None THEN [kind |-> "str", items |-> d.tags]
                 ELSE [kind |-> "list", items |-> <<>>],
        !.id = next_id]

\* The first loop of _from_dict from node_dict i on: add_node without an id
\* on the new graph g.
RECURSIVE LoadNodes(_, _, _)
LoadNodes(g, ds, i) ==
    IF i > Len(ds) THEN g
    ELSE LET n == LoadedNode(ds[i], g.next_node_id)
             pos == Len(g.nodes) + 1
         IN  LoadNodes([g EXCEPT
                           !.nodes = Append(@, n),
                           !.next_node_id = PyMax(n.id + 1, @),
                           !.id_to_node = DictPut(@, n.id, pos),
                           !.full_name_to_node =
                               DictPut(@, get_full_name(n), pos)],
                       ds, i + 1)

\* attack_graph.get_node_by_id(key) for a key taken from 'children' or
\* 'parents': the key is a full name, a str, and id_to_node has int keys
\* only, so dict.get finds nothing.
get_node_by_id_of_name(g, full_name) == NoneNode

\* `for child_id in node_dict['children']': the positions found, or <<0>>
\* at the first key that is not found (`return None').
LoadLinkTargets(g, keys) ==
    LET found == [i \in DOMAIN keys |-> get_node_by_id_of_name(g, keys[i])]
    IN  IF NoneNode \in Range(found) THEN <<NoneNode>> ELSE found

\* The second loop of _from_dict from node_dict i on; m is the model
\* argument (<<>> for None).
RECURSIVE LoadLinks(_, _, _, _)
LoadLinks(g, ds, m, i) ==
    IF i > Len(ds) THEN g
    ELSE LET d == ds[i]
             _ag_node == DictGet(g.id_to_node, d.id)
             children == LoadLinkTargets(g, d.children)
             parents == LoadLinkTargets(g, d.parents)
         IN  IF _ag_node = NoneNode THEN LoadLinks(g, ds, m, i + 1)
             ELSE IF NoneNode \in Range(children) \cup Range(parents)
             THEN [g EXCEPT !.status = "None"]
             ELSE IF m # <<>> /\ d.asset # None
                     /\ d.asset[1] \notin Range(m[1].assets)
             THEN [g EXCEPT !.status = "None"]
             ELSE LoadLinks(
                      [g EXCEPT
                         !.nodes[_ag_node].children = @ \o children,
                         !.nodes[_ag_node].parents = @ \o parents,
                         !.nodes[_ag_node].asset =
                             IF m # <<>> /\ d.asset # None THEN d.asset[1]
                             ELSE @],
                      ds, m, i + 1)

\* AttackGraph._from_dict(serialized_object, model): add_attacker is called
\* with the keywords name= and id=, which it does not have (TypeError).
from_dict(d, m) ==
    LET g1 == LoadNodes([NotLoaded EXCEPT !.status = "ok"], d.attack_steps, 1)
        g2 == LoadLinks(g1, d.attack_steps, m, 1)
    IN  IF g2.status # "ok" THEN g2
        ELSE IF d.attackers # <<>> THEN [g2 EXCEPT !.status = "TypeError"]
        ELSE g2

\* AttackGraph._from_dict(graph._to_dict(), model) with the graph's own model
\* or with none
SaveLoad ==
    /\ OneCall
    /\ \E m \in {<<>>, model} :
          LET d == to_dict
          IN  IF d.err # NoError
              THEN /\ loaded' = NotLoaded
                   /\ result' = Outcome("_to_dict", d.err, NoneNode, 0)
              ELSE /\ loaded' = from_dict(d, m)
                   /\ result' = Outcome("_from_dict",
                                        IF loaded'.status = "TypeError"
                                        THEN "TypeError" ELSE NoError,
                                        NoneNode, 0)
    /\ UNCHANGED <<reach, pureVars, node, attacker, nalloc, aalloc,
                   graphVars>>

\* -------------------------------------------------------------------- Next
Next ==
    \/ GenerateGraph
    \/ RegenerateGraph
    \/ AddNode
    \/ RemoveNode
    \/ AddAttacker
    \/ AttachAttackers
    \/ RemoveAttacker
    \/ Compromise
    \/ UndoCompromise
    \/ SaveLoad

Spec == Init /\ [][Next]_vars

\* ================================================== Reachability Calculator
\* The graphs reachability is computed on: the type of each node and the
\* edges <<parent, child>>.
ReachGraphs ==
    { \* N1 -> N4, N2 -> N3 -> N4, N4 and-kind
      [types |-> <<"or", "or", "or", "and">>,
       edges |-> {<<1, 4>>, <<2, 3>>, <<3, 4>>}],
      \* the same edges, N4 or-kind
      [types |-> <<"or", "or", "or", "or">>,
       edges |-> {<<1, 4>>, <<2, 3>>, <<3, 4>>}],
      \* N1 -> N2 <-> N3 -> N4: the and-kind N2 waits for N3, which waits
      \* for N2
      [types |-> <<"or", "and", "or", "or">>,
       edges |-> {<<1, 2>>, <<3, 2>>, <<2, 3>>, <<3, 4>>}],
      \* N1 -> N2, N1 -> N3, N2 -> N4, N3 -> N4: a defense and an and-kind
      \* node with two parents
      [types |-> <<"or", "defense", "or", "and">>,
       edges |-> {<<1, 2>>, <<1, 3>>, <<2, 4>>, <<3, 4>>}] }

\* The node objects of the graph g, in the order add_node gets them.
ReachNodeList(g) == [i \in 1..Len(g.types) |-> i]

\* The items of the sequence s that are in the set S, in the order of s.
Pick(s, S) == SelectSeq(s, LAMBDA x : x \in S)

\* Node h of the graph g after add_node and linking by hand.
ReachNode(g, h) ==
    [NewNode(g.types[h], "N" \o ToString(h), NoAsset) EXCEPT
        !.id = h - 1,
        !.children = Pick(ReachNodeList(g),
                          {c \in DOMAIN g.types : <<h, c>> \in g.edges}),
        !.parents = Pick(ReachNodeList(g),
                         {q \in DOMAIN g.types : <<q, h>> \in g.edges})]

\* A graph of ReachGraphs with MaxAttackers attackers that have compromised
\* nothing yet, as attach_attackers leaves the attackers of a model that
\* gives them no entry points: entry_points and reached_attack_steps are
\* one list.
InitReach ==
    \E g \in ReachGraphs :
        /\ node = [h \in DOMAIN g.types |-> ReachNode(g, h)]
        /\ attacker = [h \in AttackerObjs |->
                          [NewAttacker(AttackerName(h)) EXCEPT
                               !.id = h - 1,
                               !.entry_points_is_reached = TRUE]]
        /\ nalloc = Len(g.types)
        /\ aalloc = MaxAttackers
        /\ nodes = ReachNodeList(g)
        /\ id_to_node = [i \in {h - 1 : h \in DOMAIN g.types} |-> i + 1]
        /\ full_name_to_node =
               [f \in {get_full_name(ReachNode(g, h)) : h \in DOMAIN g.types} |->
                   CHOOSE h \in DOMAIN g.types :
                       get_full_name(ReachNode(g, h)) = f]
        /\ attackers = [i \in AttackerObjs |-> i]
        /\ id_to_attacker = [i \in {h - 1 : h \in AttackerObjs} |-> i + 1]
        /\ next_node_id = Len(g.types)
        /\ next_attacker_id = MaxAttackers
        /\ model = <<>>
        /\ loaded = NotLoaded
        /\ reach = ReachIdle
        /\ evaluation = NoEvaluation
        /\ search = NoSearch
        /\ result = Outcome("__init__", NoError, NoneNode, 0)
        /\ calls = 0

\* `attacker.reached_attack_steps = []': the field is bound to a new list,
\* entry_points keeps the list it had and the two stop being one object.
ClearReached ==
    /\ OneCall
    /\ \E a \in Range(attackers) :
          /\ attacker' = [attacker EXCEPT ![a] =
                              [@ EXCEPT !.entry_points = EntryPoints(attacker[a]),
                                        !.entry_points_is_reached = FALSE,
                                        !.reached_attack_steps = <<>>]]
          /\ result' = Outcome("clear_reached", NoError, NoneNode, a)
    /\ UNCHANGED <<node, nalloc, aalloc, graphVars, loaded,
                   pureVars, reach>>

\* `node.is_viable = b', as an external analysis sets it
SetViable ==
    /\ OneCall
    /\ \E n \in Range(nodes) :
          /\ node' = [node EXCEPT ![n].is_viable = ~@]
          /\ result' = Outcome("set_viable", NoError, n, 0)
    /\ UNCHANGED <<attacker, nalloc, aalloc, graphVars, loaded,
                   pureVars, reach>>

\* The marks <<attacker, node>> the fields reachable_by hold.
ReachableMarks ==
    {p \in Range(attackers) \X Range(nodes) : p[1] \in node[p[2]].reachable_by}

\* A derived set that is left as it was instead of being cleared.
Kept(S) == S

\* A derived set after it has been cleared.
Cleared(S) == {}

\* The seeds: each attacker's current reached_attack_steps.
Seeds ==
    {p \in Range(attackers) \X Range(nodes) :
        p[2] \in Range(attacker[p[1]].reached_attack_steps)}

\* The propagation rule with every kind treated as or-kind.
CanReachAnyParent(marked, a, c) ==
    /\ node[c].is_viable
    /\ \E q \in Range(node[c].parents) : <<a, q>> \in marked

\* The propagation rule without the viability test.
CanReachNonViable(marked, a, c) ==
    IF node[c].type = "and"
    THEN \A q \in Range(node[c].parents) : <<a, q>> \in marked
    ELSE \E q \in Range(node[c].parents) : <<a, q>> \in marked

\* The propagation rule for the visited node c and attacker a under the
\* marks so far: viable, and by kind any parent or all parents marked.
CanReach(marked, a, c) ==
    /\ node[c].is_viable
    /\ IF node[c].type = "and"
       THEN \A q \in Range(node[c].parents) : <<a, q>> \in marked
       ELSE \E q \in Range(node[c].parents) : <<a, q>> \in marked

\* calculate_reachability(), its start: clear the derived sets, seed the
\* work queue and mark the seeds.
StartReachability ==
    /\ OneCall
    /\ node' = [h \in DOMAIN node |->
                   [node[h] EXCEPT !.reachable_by = Cleared(@)]]
    /\ attacker' = [h \in DOMAIN attacker |->
                       [attacker[h] EXCEPT
                            !.reachable_attack_steps = Cleared(@)]]
    /\ reach' = [phase |-> "running", queue |-> Seeds, marked |-> Seeds,
                 before |-> ReachableMarks]
    /\ result' = Outcome("calculate_reachability", "running", NoneNode, 0)
    /\ UNCHANGED <<nalloc, aalloc, graphVars, loaded, pureVars>>

\* One item <<a, n>> leaves the work queue, whichever: the children of n
\* are visited, and those the rule lets through are marked and queued.
VisitNode ==
    /\ reach.phase = "running"
    /\ \E item \in reach.queue :
          LET a == item[1]
              new == {c \in Range(node[item[2]].children) :
                         /\ <<a, c>> \notin reach.marked
                         /\ CanReach(reach.marked, a, c)}
          IN  reach' = [reach EXCEPT
                           !.queue = (@ \ {item}) \cup ({a} \X new),
                           !.marked = @ \cup ({a} \X new)]
    /\ UNCHANGED <<node, attacker, nalloc, aalloc, graphVars, loaded,
                   pureVars,                   result, calls>>

\* The work queue is empty: the marks are written to the derived sets.
FinishReachability ==
    /\ reach.phase = "running"
    /\ reach.queue = {}
    /\ node' = [h \in DOMAIN node |->
                   [node[h] EXCEPT !.reachable_by =
                        @ \cup {a \in Range(attackers) : <<a, h>> \in reach.marked}]]
    /\ attacker' = [h \in DOMAIN attacker |->
                       [attacker[h] EXCEPT !.reachable_attack_steps =
                            @ \cup {n \in Range(nodes) : <<h, n>> \in reach.marked}]]
    /\ reach' = [reach EXCEPT !.phase = "idle", !.marked = {}]
    /\ result' = Outcome("calculate_reachability", NoError, NoneNode, 0)
    /\ UNCHANGED <<nalloc, aalloc, graphVars, loaded, pureVars, calls>>

NextReach ==
    \/ Compromise
    \/ ClearReached
    \/ SetViable
    \/ StartReachability
    \/ VisitNode
    \/ FinishReachability

SpecReach == InitReach /\ [][NextReach]_vars

\* ================================================ _process_step_expression
\* A list (gen FALSE) or a generator (gen TRUE) of assets: the items still
\* to come when it is iterated.  Assets are their ids.
Lst(items) == [items |-> items, gen |-> FALSE]
Gen(items) == [items |-> items, gen |-> TRUE]

\* The iterable T after a loop has gone through all of it.
Drain(T) == IF T.gen THEN Gen(<<>>) ELSE T

\* The attack step name None.
NoStep == "<None>"

\* A step expression: the keys of its dict that its type reads; lhs, rhs
\* and stepExpression are positions in ExprTable.
Expr(type, name, lhs, rhs, stepExpression, subType) ==
    [type |-> type, name |-> name, lhs |-> lhs, rhs |-> rhs,
     stepExpression |-> stepExpression, subType |-> subType]

\* The step expressions evaluated.  The operands of a set operator evaluate
\* to lists, the right operand to a list of its own; a set operator whose
\* left operand is an attackStep expression, which hands back the list it
\* was given, is the whole expression.
ExprTable ==
    << Expr("field", "f", 0, 0, 0, ""),                \* 1: f
       Expr("field", "g", 0, 0, 0, ""),                \* 2: g
       Expr("attackStep", "access", 0, 0, 0, ""),      \* 3: access
       Expr("union", "", 1, 2, 0, ""),                 \* 4: f \/ g
       Expr("union", "", 2, 1, 0, ""),                 \* 5: g \/ f
       Expr("difference", "", 1, 2, 0, ""),            \* 6: f - g
       Expr("difference", "", 2, 1, 0, ""),            \* 7: g - f
       Expr("intersection", "", 1, 2, 0, ""),          \* 8: f /\ g
       Expr("transitive", "", 0, 0, 1, ""),            \* 9: f*
       Expr("subType", "", 0, 0, 2, "Host"),           \* 10: g[Host]
       Expr("variable", "v", 0, 0, 0, ""),             \* 11: v()
       Expr("collect", "", 1, 3, 0, ""),               \* 12: f.access
       Expr("collect", "", 10, 11, 0, ""),             \* 13: g[Host].v()
       Expr("collect", "", 4, 3, 0, ""),               \* 14: (f \/ g).access
       Expr("union", "", 6, 2, 0, ""),                 \* 15: (f - g) \/ g
       Expr("collect", "", 10, 4, 0, ""),              \* 16: g[Host].(f \/ g)
       Expr("subType", "", 0, 0, 12, "Host"),          \* 17: (f.access)[Host]
       Expr("collect", "", 10, 10, 0, ""),             \* 18: g[Host].g[Host]
       Expr("union", "", 3, 1, 0, ""),                 \* 19: access \/ f
       Expr("difference", "", 3, 2, 0, "") >>          \* 20: access - g

\* The language and model an expression is evaluated in: the type of every
\* asset, the assets associated with each asset by field name, the step
\* expression of each variable, and the pairs <<type, extended type>>.
ExprWorlds ==
    << \* no association leads back
       [types |-> <<"Host", "Server", "Data">>,
        assoc |-> [fld \in {"f", "g"} |->
                     IF fld = "f" THEN << <<2, 3>>, <<3>>, <<>> >>
                     ELSE << <<2>>, <<>>, <<1, 2>> >>],
        variables |-> [v \in {"v"} |-> 1],
        extends |-> {<<"Server", "Host">>}],
       \* f leads from asset 1 to 2 and back
       [types |-> <<"Host", "Server", "Data">>,
        assoc |-> [fld \in {"f", "g"} |->
                     IF fld = "f" THEN << <<2>>, <<1>>, <<>> >>
                     ELSE << <<3>>, <<3, 1>>, <<>> >>],
        variables |-> [v \in {"v"} |-> 2],
        extends |-> {<<"Server", "Host">>}],
       \* f is a chain 1, 2, 3; the variable stands for f*
       [types |-> <<"Host", "Server", "Data">>,
        assoc |-> [fld \in {"f", "g"} |->
                     IF fld = "f" THEN << <<2>>, <<3>>, <<>> >>
                     ELSE << <<3>>, <<>>, <<>> >>],
        variables |-> [v \in {"v"} |-> 9],
        extends |-> {<<"Server", "Host">>}] >>

\* The target lists a caller passes: up to two assets, also one twice.
TargetLists ==
    {<<>>} \cup {<<a>> : a \in 1..3}
           \cup {<<a, b>> : a \in 1..3, b \in 1..3}

\* model.get_associated_assets_by_field_name(asset, name) for every target
\* in turn, the results joined: `new_target_assets.extend(...)'
FieldTargets(w, items, name) ==
    Flatten([i \in DOMAIN items |-> w.assoc[name][items[i]]])

\* specification.extends_asset(lang_graph, asset_type, sub_type)
extends_asset(w, asset_type, sub_type) ==
    asset_type = sub_type \/ <<asset_type, sub_type>> \in w.extends

\* What one call returns and leaves behind: the targets returned, the attack
\* step name, whether the object returned is the very object passed in as
\* target_assets, that object as the call leaves it, and the exception.
EvalResult(out, step, shared, inp, err) ==
    [out |-> out, step |-> step, shared |-> shared, inp |-> inp, err |-> err]

EvalFailed(T, err) == EvalResult(Lst(<<>>), NoStep, FALSE, T, err)

\* union: `for ag_node in rh_targets: if next((lnode for lnode in
\* new_target_assets if lnode.id != ag_node.id), None):
\* new_target_assets.append(ag_node)' from item i of rh_targets on
RECURSIVE UnionLoop(_, _, _)
UnionLoop(new_target_assets, rh_targets, i) ==
    IF i > Len(rh_targets) THEN new_target_assets
    ELSE UnionLoop(
             IF \E k \in DOMAIN new_target_assets :
                    new_target_assets[k] # rh_targets[i]
             THEN Append(new_target_assets, rh_targets[i])
             ELSE new_target_assets,
             rh_targets, i + 1)

\* intersection: the items of rh_targets whose id some item of lh_targets has
IntersectionLoop(lh_targets, rh_targets) ==
    SelectSeq(rh_targets, LAMBDA ag_node : ag_node \in Range(lh_targets))

\* difference: `for ag_node in lh_targets: if next((rnode for rnode in
\* rh_targets if rnode.id != ag_node.id), None):
\* new_target_assets.remove(ag_node)', where new_target_assets is
\* lh_targets itself: the loop reads by position the list it shrinks.
RECURSIVE DifferenceLoop(_, _, _)
DifferenceLoop(new_target_assets, rh_targets, i) ==
    IF i > Len(new_target_assets) THEN new_target_assets
    ELSE LET ag_node == new_target_assets[i]
             first == SetMin({k \in DOMAIN new_target_assets :
                                 new_target_assets[k] = ag_node})
         IN  DifferenceLoop(
                 IF \E k \in DOMAIN rh_targets : rh_targets[k] # ag_node
                 THEN SeqDel(new_target_assets, first)
                 ELSE new_target_assets,
                 rh_targets, i + 1)

RECURSIVE Eval(_, _, _, _)

\* case 'union' | 'intersection' | 'difference'.  For union and difference
\* new_target_assets is lh_targets itself: where the left operand has handed
\* back target_assets, the loop appends to or removes from the caller's list.
EvalSetOperator(w, x, T, d) ==
    LET l == Eval(w, x.lhs, T, d)
        r == Eval(w, x.rhs, l.inp, d)
        lh_targets == IF l.shared THEN r.inp.items ELSE l.out.items
        new_target_assets ==
            CASE x.type = "union" -> UnionLoop(lh_targets, r.out.items, 1)
              [] x.type = "intersection" ->
                     IntersectionLoop(lh_targets, r.out.items)
              [] x.type = "difference" ->
                     DifferenceLoop(lh_targets, r.out.items, 1)
    IN  IF l.err # NoError THEN EvalFailed(l.inp, l.err)
        ELSE IF r.err # NoError THEN EvalFailed(r.inp, r.err)
        ELSE IF l.shared /\ x.type # "intersection"
        THEN EvalResult(Lst(new_target_assets), NoStep, TRUE,
                        Lst(new_target_assets), NoError)
        ELSE EvalResult(Lst(new_target_assets), NoStep, FALSE, r.inp,
                        NoError)

\* case 'variable': the first target decides, and the expression of the
\* variable is evaluated on target_assets as the loop has left it.
EvalVariable(w, x, T, d) ==
    IF T.items = <<>> THEN EvalResult(Lst(<<>>), NoStep, FALSE, T, NoError)
    ELSE Eval(w, w.variables[x.name],
              IF T.gen THEN Gen(Tail(T.items)) ELSE T, d)

\* The transitive case without its recursion: the first frontier only.
EvalTransitiveOneStep(w, e, T, d) ==
    EvalResult(Lst(FieldTargets(w, T.items,
                                ExprTable[ExprTable[e].stepExpression].name)),
               NoStep, FALSE, Drain(T), NoError)

\* case 'transitive': d counts the calls of the expression on itself.  A
\* frontier that is not empty after as many steps as there are assets has
\* met an asset twice and never gets empty: the recursion does not end.
EvalTransitive(w, e, T, d) ==
    LET new_target_assets ==
            FieldTargets(w, T.items, ExprTable[ExprTable[e].stepExpression].name)
        r == Eval(w, e, Lst(new_target_assets), d + 1)
    IN  IF new_target_assets = <<>>
        THEN EvalResult(Lst(<<>>), NoStep, FALSE, Drain(T), NoError)
        ELSE IF d + 1 >= Len(w.types)
        THEN EvalFailed(Drain(T), "RecursionError")
        ELSE IF r.err # NoError THEN EvalFailed(Drain(T), r.err)
        ELSE EvalResult(Lst(new_target_assets \o r.out.items), NoStep,
                        FALSE, Drain(T), NoError)

\* case 'subType', its loop `for target_asset in target_assets' over a
\* list, from item i on: the inner expression is evaluated on all of
\* target_assets once per target.
RECURSIVE SubTypeOverList(_, _, _, _, _, _)
SubTypeOverList(w, x, T, i, acc, d) ==
    IF i > Len(T.items) THEN [items |-> acc, inp |-> T, err |-> NoError]
    ELSE LET r == Eval(w, x.stepExpression, T, d)
         IN  IF r.err # NoError
             THEN [items |-> acc, inp |-> T, err |-> r.err]
             ELSE SubTypeOverList(w, x, T, i + 1, acc \o r.out.items, d)

\* The same loop over a generator: the loop takes one target, and the
\* inner expression is evaluated on the generator the loop is reading.
RECURSIVE SubTypeOverGen(_, _, _, _, _)
SubTypeOverGen(w, x, T, acc, d) ==
    IF T.items = <<>> THEN [items |-> acc, inp |-> T, err |-> NoError]
    ELSE LET r == Eval(w, x.stepExpression, Gen(Tail(T.items)), d)
         IN  IF r.err # NoError
             THEN [items |-> acc, inp |-> r.inp, err |-> r.err]
             ELSE SubTypeOverGen(w, x,
                                 IF r.shared THEN Gen(<<>>) ELSE r.inp,
                                 acc \o r.out.items, d)

\* case 'subType': a generator over the targets collected, filtered
EvalSubType(w, x, T, d) ==
    LET c == IF T.gen THEN SubTypeOverGen(w, x, T, <<>>, d)
             ELSE SubTypeOverList(w, x, T, 1, <<>>, d)
    IN  IF c.err # NoError THEN EvalFailed(c.inp, c.err)
        ELSE EvalResult(
                 Gen(SelectSeq(c.items,
                        LAMBDA asset : extends_asset(w, w.types[asset],
                                                     x.subType))),
                 NoStep, FALSE, c.inp, NoError)

\* case 'collect': the right-hand side is evaluated on lh_targets
EvalCollect(w, x, T, d) ==
    LET l == Eval(w, x.lhs, T, d)
        r == Eval(w, x.rhs, IF l.shared THEN l.inp ELSE l.out, d)
    IN  IF l.err # NoError THEN EvalFailed(l.inp, l.err)
        ELSE IF r.err # NoError
        THEN EvalFailed(IF l.shared THEN r.inp ELSE l.inp, r.err)
        ELSE IF l.shared THEN r
        ELSE EvalResult(r.out, r.step, FALSE, l.inp, NoError)

\* _process_step_expression(lang_graph, model, target_assets,
\* step_expression) in the world w, for the expression at position e and
\* the targets T
Eval(w, e, T, d) ==
    LET x == ExprTable[e]
    IN  CASE x.type = "attackStep" ->
                EvalResult(T, x.name, TRUE, T, NoError)
          [] x.type \in {"union", "intersection", "difference"} ->
                EvalSetOperator(w, x, T, d)
          [] x.type = "variable" -> EvalVariable(w, x, T, d)
          [] x.type = "field" ->
                EvalResult(Lst(FieldTargets(w, T.items, x.name)), NoStep,
                           FALSE, Drain(T), NoError)
          [] x.type = "transitive" -> EvalTransitive(w, e, T, d)
          [] x.type = "subType" -> EvalSubType(w, x, T, d)
          [] x.type = "collect" -> EvalCollect(w, x, T, d)
          [] OTHER -> EvalResult(Lst(<<>>), NoStep, FALSE, T, NoError)

\* The graph store before any call, as AttackGraph() leaves it.
EmptyGraph ==
    /\ node = [h \in NodeObjs |-> NewNode("or", "", NoAsset)]
    /\ attacker = [h \in AttackerObjs |-> NewAttacker(AttackerName(h))]
    /\ nalloc = 0
    /\ aalloc = 0
    /\ nodes = <<>>
    /\ id_to_node = EmptyDict
    /\ full_name_to_node = EmptyDict
    /\ attackers = <<>>
    /\ id_to_attacker = EmptyDict
    /\ next_node_id = 0
    /\ next_attacker_id = 0
    /\ model = <<>>
    /\ loaded = NotLoaded
    /\ reach = ReachIdle
    /\ result = Outcome("__init__", NoError, NoneNode, 0)
    /\ calls = 0

\* A caller is about to evaluate a step expression of ExprTable on a target
\* list in one of the worlds.
InitExpr ==
    /\ EmptyGraph
    /\ search = NoSearch
    /\ \E w \in DOMAIN ExprWorlds, e \in DOMAIN ExprTable, T \in TargetLists :
          evaluation = [done |-> FALSE, world |-> w, expr |-> e,
                        target_assets |-> T,
                        r |-> EvalFailed(Lst(T), NoError)]

\* The call _process_step_expression(lang_graph, model, target_assets,
\* step_expression); the caller then reads the targets returned.
Evaluate ==
    /\ ~evaluation.done
    /\ evaluation' =
           [evaluation EXCEPT
               !.done = TRUE,
               !.r = Eval(ExprWorlds[evaluation.world], evaluation.expr,
                          Lst(evaluation.target_assets), 0)]
    /\ UNCHANGED <<node, attacker, nalloc, aalloc, graphVars, loaded, reach,
                   search, result, calls>>

NextExpr == Evaluate

SpecExpr == InitExpr /\ [][NextExpr]_vars

\* ============================================================ patternfinder
\* max_repeated=math.inf
Unbounded == -1

\* SearchCondition(matches, min_repeated, max_repeated), where `matches' is
\* `lambda n: n.name in names'
SearchCondition(names, min_repeated, max_repeated) ==
    [names |-> names, min_repeated |-> min_repeated,
     max_repeated |-> max_repeated]

\* The names of the nodes searched, and every name for `lambda n: True'.
SearchNames == {"attemptModify", "attemptRead", "access"}

\* SearchCondition.matches(node)
matches(g, cond, n) == g.name[n] \in cond.names

\* A condition that is never used for a second node of a path.
can_match_again_never(cond, num_matches) == FALSE

\* SearchCondition.can_match_again(num_matches)
can_match_again(cond, num_matches) ==
    cond.max_repeated = Unbounded \/ num_matches < cond.max_repeated

\* SearchCondition.must_match_again(num_matches)
must_match_again(cond, num_matches) == num_matches < cond.min_repeated

\* The patterns searched for.
SearchPatterns ==
    << \* the pattern of test_attackgraph_find_pattern
       << SearchCondition({"attemptModify"}, 1, 1),
          SearchCondition(SearchNames, 1, Unbounded),
          SearchCondition({"attemptRead"}, 1, 1) >>,
       << SearchCondition({"attemptModify"}, 1, 1),
          SearchCondition(SearchNames, 2, 3),
          SearchCondition({"attemptRead"}, 1, 1) >>,
       << SearchCondition({"attemptModify"}, 1, 1),
          SearchCondition({"attemptRead"}, 2, 2) >>,
       << SearchCondition({"attemptModify"}, 1, 1),
          SearchCondition({"access"}, 0, 1),
          SearchCondition({"attemptRead"}, 1, 1) >>,
       << SearchCondition({"access", "attemptRead"}, 1, 2) >>,
       << SearchCondition({"attemptModify"}, 1, Unbounded),
          SearchCondition({"attemptRead"}, 1, 1) >> >>

\* The children lists of the graphs searched, by position in graph.nodes.
\* Nodes have different ids, so that no two of them are equal.
SearchChildren ==
    << << <<2>>, <<3>>, <<4>>, <<>> >>,                \* a chain
       << <<2, 3>>, <<4>>, <<4>>, <<>> >>,             \* a diamond
       << <<2>>, <<3>>, <<1, 4>>, <<>> >>,             \* a cycle with an exit
       << <<2, 3, 4>>, <<3, 4>>, <<4>>, <<>> >>,       \* every forward edge
       << <<2>>, <<1, 3>>, <<2, 4>>, <<3>> >>,         \* a chain, both ways
       << <<2, 2>>, <<3>>, <<>>, <<3>> >>,             \* a child listed twice
       << <<2, 3, 4>>, <<1, 3, 4>>, <<1, 2, 4>>, <<1, 2, 3>> >>,
       << <<1, 2>>, <<3>>, <<3, 4>>, <<>> >> >>        \* own children

\* The graphs searched: the children lists and a name for every node.
SearchGraphs ==
    { [children |-> SearchChildren[c], name |-> nm] :
        c \in DOMAIN SearchChildren,
        nm \in [1..4 -> SearchNames] }

\* A guard that only stops a path of five nodes, whatever the nodes are.
InLongPath(n, current_path) == Len(current_path) >= 5

\* `node in current_path': nodes with different ids are never equal, so
\* this is the node itself being on the path.
InCurrentPath(n, current_path) == n \in Range(current_path)

RECURSIVE find_matches_recursively(_, _, _, _, _, _)

\* `for child in node.children: matching_paths = find_matches_recursively(
\* child, condition_list, current_path=list(current_path),
\* matching_paths=list(matching_paths), condition_match_count=...)'
\* from child i of the list on.  A call only ever adds paths; comparing the
\* lengths has the list of one child computed before the next child's.
RECURSIVE ForChildren(_, _, _, _, _, _, _)
ForChildren(g, children, i, condition_list, current_path, matching_paths, condition_match_count) ==
    IF i > Len(children) THEN matching_paths
    ELSE LET found == find_matches_recursively(
                          g, children[i], condition_list, current_path,
                          matching_paths, condition_match_count)
         IN  IF Len(found) >= Len(matching_paths)
             THEN ForChildren(g, children, i + 1, condition_list,
                              current_path, found, condition_match_count)
             ELSE found

\* find_matches_recursively(node, condition_list, current_path,
\* matching_paths, condition_match_count) on the nodes of g
find_matches_recursively(g, n, condition_list, current_path, matching_paths, condition_match_count) ==
    LET curr_cond == Head(condition_list)
        next_conds == Tail(condition_list)
        \* try next condition for current node if current is fulfilled
        tried == IF /\ next_conds # <<>>
                    /\ ~must_match_again(curr_cond, condition_match_count)
                 THEN find_matches_recursively(g, n, next_conds, current_path,
                                               matching_paths, 0)
                 ELSE matching_paths
        path == Append(current_path, n)
        count == condition_match_count + 1
        \* if there are more conditions, try next one for all children
        advanced == IF next_conds # <<>>
                    THEN ForChildren(g, g.children[n], 1, next_conds, path,
                                     tried, 0)
                    ELSE tried
        \* if we can match current condition again, try for all children
        repeated == IF can_match_again(curr_cond, count)
                    THEN ForChildren(g, g.children[n], 1, condition_list,
                                     path, advanced, count)
                    ELSE advanced
    IN  IF InCurrentPath(n, current_path) THEN matching_paths
        ELSE IF ~matches(g, curr_cond, n) THEN tried
        ELSE IF next_conds = <<>> /\ path \notin Range(repeated)
        THEN Append(repeated, path)
        ELSE repeated

\* SearchPattern.find_matches(graph)
find_matches(g, conditions) ==
    LET starting_nodes ==
            SelectSeq([i \in DOMAIN g.children |-> i],
                      LAMBDA n : matches(g, conditions[1], n))
    IN  Flatten([i \in DOMAIN starting_nodes |->
                    find_matches_recursively(g, starting_nodes[i], conditions,
                                             <<>>, <<>>, 0)])

\* ----------------------------------------- patterns (the earlier module)
\* What a search of maltoolbox.patterns carries through its calls: it never
\* copies current_path, so one list object serves all the calls made for
\* one starting node, and matching_paths gets that object appended once per
\* match.  path is the content of the object, found the number of times it
\* was appended, err the exception.
Carried(path, found, err) == [path |-> path, found |-> found, err |-> err]

\* Which nodes a call visits depends on the node, the conditions left and
\* the match count only, and the count makes no difference once it has
\* reached the min_repeated of a condition that has no max_repeated.
CallKey(n, condition_list, condition_match_count) ==
    LET current_exp == Head(condition_list)
    IN  <<n, Len(condition_list),
          IF /\ current_exp.max_repeated = Unbounded
             /\ condition_match_count > current_exp.min_repeated
          THEN current_exp.min_repeated
          ELSE condition_match_count>>

RECURSIVE patterns_find_matches_recursively(_, _, _, _, _, _)

\* `for child in node.children: matching_paths = find_matches_recursively(
\* child, ..., current_path=current_path, matching_paths=matching_paths,
\* ...)' from child i of the list on; condition_list[1:] of the last
\* condition is empty, and condition_list[0] of it raises IndexError.
RECURSIVE PatternsForChildren(_, _, _, _, _, _, _)
PatternsForChildren(g, children, i, condition_list, c, condition_match_count, stack) ==
    IF i > Len(children) \/ c.err # NoError THEN c
    ELSE IF condition_list = <<>> THEN [c EXCEPT !.err = "IndexError"]
    ELSE LET r == patterns_find_matches_recursively(
                      g, children[i], condition_list, c,
                      condition_match_count, stack)
         IN  IF Len(r.path) >= Len(c.path)
             THEN PatternsForChildren(g, children, i + 1, condition_list, r,
                                      condition_match_count, stack)
             ELSE r

\* find_matches_recursively(node, condition_list, current_path,
\* matching_paths, condition_match_count) of maltoolbox.patterns.  stack
\* holds the keys of the calls that have not returned: a call with the key
\* of one of them makes the same calls again, without end, which CPython
\* stops with RecursionError.
patterns_find_matches_recursively(g, n, condition_list, c, condition_match_count, stack) ==
    LET current_exp == Head(condition_list)
        key == CallKey(n, condition_list, condition_match_count)
        appended == [c EXCEPT !.path = Append(@, n)]
        count == condition_match_count + 1
    IN  IF c.err # NoError THEN c
        ELSE IF key \in stack THEN [c EXCEPT !.err = "RecursionError"]
        ELSE IF matches(g, current_exp, n)
        THEN IF Len(condition_list) = 1 /\ ~must_match_again(current_exp, count)
             \* this is the last condition, and the current path is matching
             THEN [appended EXCEPT !.found = @ + 1]
             ELSE IF can_match_again(current_exp, count)
             \* pattern has matches left, run with current condition
             THEN PatternsForChildren(g, g.children[n], 1, condition_list,
                                      appended, count, stack \cup {key})
             \* pattern has run out of matches, move on to next condition
             ELSE PatternsForChildren(g, g.children[n], 1,
                                      Tail(condition_list), appended, 0,
                                      stack \cup {key})
        ELSE IF /\ ~must_match_again(current_exp, condition_match_count)
                /\ Len(condition_list) > 1
        THEN patterns_find_matches_recursively(
                 g, n, Tail(condition_list), c, 0, stack \cup {key})
        ELSE c

\* SearchPattern.find_matches(graph) of maltoolbox.patterns: per starting
\* node the list object of its search, as often as it was appended.  A
\* returned path is the list object (named by its starting node) and the
\* nodes it holds when find_matches returns.
patterns_find_matches(g, conditions) ==
    LET starting_nodes ==
            SelectSeq([i \in DOMAIN g.children |-> i],
                      LAMBDA n : matches(g, conditions[1], n))
        searched == [i \in DOMAIN starting_nodes |->
                        patterns_find_matches_recursively(
                            g, starting_nodes[i], conditions,
                            Carried(<<>>, 0, NoError), 0, {})]
        failed == {i \in DOMAIN searched : searched[i].err # NoError}
    IN  IF failed # {}
        THEN [err |-> searched[SetMin(failed)].err, matching_paths |-> <<>>]
        ELSE [err |-> NoError,
              matching_paths |->
                 Flatten([i \in DOMAIN searched |->
                            [k \in 1..searched[i].found |->
                                [list |-> starting_nodes[i],
                                 nodes |-> searched[i].path]]])]

\* A caller is about to search a graph for a pattern, with either module.
InitSearch ==
    /\ EmptyGraph
    /\ evaluation = NoEvaluation
    /\ \E g \in SearchGraphs, p \in DOMAIN SearchPatterns :
          search = [done |-> FALSE, graph |-> g, pattern |-> p,
                    matching_paths |-> <<>>,
                    patterns_done |-> FALSE,
                    patterns |-> [err |-> NoError, matching_paths |-> <<>>]]

\* The call SearchPattern(conditions).find_matches(graph) of
\* maltoolbox.patternfinder
FindMatches ==
    /\ ~search.done
    /\ search' = [search EXCEPT
                     !.done = TRUE,
                     !.matching_paths =
                         find_matches(search.graph,
                                      SearchPatterns[search.pattern])]
    /\ UNCHANGED <<node, attacker, nalloc, aalloc, graphVars, loaded, reach,
                   evaluation, result, calls>>

\* The call SearchPattern(conditions).find_matches(graph) of
\* maltoolbox.patterns
PatternsFindMatches ==
    /\ ~search.patterns_done
    /\ search' = [search EXCEPT
                     !.patterns_done = TRUE,
                     !.patterns =
                         patterns_find_matches(search.graph,
                                               SearchPatterns[search.pattern])]
    /\ UNCHANGED <<node, attacker, nalloc, aalloc, graphVars, loaded, reach,
                   evaluation, result, calls>>

NextSearch == FindMatches \/ PatternsFindMatches

SpecSearch == InitSearch /\ [][NextSearch]_vars

\* ================================================================== claims
InGraph == Range(nodes)

\* C1: parent/child edges are symmetric among the nodes of the graph: for
\* all nodes A and B in the node list, B is in A.children if and only if A
\* is in B.parents.
C1_EdgesSymmetric ==
    \A A \in InGraph, B \in InGraph :
        (B \in Range(node[A].children)) <=> (A \in Range(node[B].parents))

\* C1 witness: a node was removed from a generated graph and an edge remains
\* between nodes that are still in the graph.
C1_Witness ==
    /\ result.op = "remove_node"
    /\ result.raised = NoError
    /\ \E A \in InGraph, B \in InGraph : B \in Range(node[A].children)

\* C2 (as claimed): no two positions of the node list hold nodes with the
\* same id, and no two hold nodes with the same full name.
C2_UniqueIdsAndNames ==
    \A i \in DOMAIN nodes, j \in DOMAIN nodes :
        i # j =>
            /\ node[nodes[i]].id # node[nodes[j]].id
            /\ get_full_name(node[nodes[i]]) # get_full_name(node[nodes[j]])

\* C9: after remove_node(n) returns, n is not in the node list, in no
\* remaining node's children or parents, and found by neither lookup.
C9_RemovedEverywhere ==
    (result.op = "remove_node" /\ result.raised = NoError) =>
        LET n == result.node
        IN  /\ n \notin InGraph
            /\ \A m \in InGraph :
                  /\ n \notin Range(node[m].children)
                  /\ n \notin Range(node[m].parents)
            /\ \A i \in DOMAIN id_to_node : id_to_node[i] # n
            /\ \A f \in DOMAIN full_name_to_node : full_name_to_node[f] # n

\* C10 (as claimed): add_node with a supplied id that a node of the graph
\* already has raises and inserts nothing, for every supplied id, 0 included;
\* likewise add_attacker.
C10_DuplicateIdRejected ==
    [][ /\ ( /\ result'.op = "add_node"
             /\ calls' = calls + 1
             /\ result'.id # NoneId
             /\ \E m \in InGraph : node[m].id = result'.id )
           => ( /\ result'.raised = "ValueError"
                /\ id_to_node' = id_to_node )
        /\ ( /\ result'.op = "add_attacker"
             /\ calls' = calls + 1
             /\ result'.id # NoneId
             /\ \E b \in Range(attackers) : attacker[b].id = result'.id )
           => ( /\ result'.raised = "ValueError"
                /\ attackers' = attackers
                /\ id_to_attacker' = id_to_attacker ) ]_vars

Count(s, x) == Cardinality({i \in DOMAIN s : s[i] = x})

\* C7 (as claimed): compromise and undo_compromise are idempotent: compromise(node) by an
\* attacker that has already compromised the node, and undo_compromise(node)
\* by an attacker that has not, change no node and no attacker; after
\* compromise the node and the attacker appear once in each other's lists.
C7_Idempotent ==
    [][ /\ ( /\ result'.op = "compromise"
             /\ calls' = calls + 1
             /\ result'.attacker \in
                    Range(node[result'.node].compromised_by) )
           => (node' = node /\ attacker' = attacker)
        /\ ( /\ result'.op = "compromise"
             /\ calls' = calls + 1 )
           => ( /\ Count(node'[result'.node].compromised_by,
                         result'.attacker) = 1
                /\ Count(attacker'[result'.attacker].reached_attack_steps,
                         result'.node) = 1 )
        /\ ( /\ result'.op = "undo_compromise"
             /\ calls' = calls + 1
             /\ result'.attacker \notin
                    Range(node[result'.node].compromised_by) )
           => (node' = node /\ attacker' = attacker) ]_vars

\* C8 (as claimed): after any sequence of calls a node is in an attacker's
\* reached_attack_steps if and only if the attacker is in the node's
\* compromised_by, for every attacker and node.
C8_BookkeepingConsistent ==
    \A a \in 1..aalloc, n \in 1..nalloc :
        (n \in Range(attacker[a].reached_attack_steps))
            <=> (a \in Range(node[n].compromised_by))

\* The full names of the nodes a list of one graph holds.
FullNames(nd, s) == [i \in DOMAIN s |-> get_full_name(nd[s[i]])]

\* C3 (as claimed): _from_dict(_to_dict()) gives a graph, with as many nodes,
\* every node with the same children and parents by full name and the same
\* type, name, ttc, optional fields, tags and extras, and as many attackers.
C3_RoundTrip ==
    (result.op = "_from_dict") =>
        /\ loaded.status = "ok"
        /\ Len(loaded.nodes) = Len(nodes)
        /\ \A i \in DOMAIN nodes :
              LET o == node[nodes[i]]
                  l == loaded.nodes[i]
              IN  /\ FullNames(loaded.nodes, l.children) =
                         FullNames(node, o.children)
                  /\ FullNames(loaded.nodes, l.parents) =
                         FullNames(node, o.parents)
                  /\ l.type = o.type
                  /\ l.name = o.name
                  /\ l.ttc = o.ttc
                  /\ l.defense_status = o.defense_status
                  /\ l.existence_status = o.existence_status
                  /\ l.is_viable = o.is_viable
                  /\ l.is_necessary = o.is_necessary
                  /\ l.mitre_info = o.mitre_info
                  /\ l.tags = o.tags
                  /\ l.extras = o.extras
        /\ Len(loaded.attackers) = Len(attackers)

\* The calculator has returned.
Calculated == result.op = "calculate_reachability" /\ result.raised = NoError

Reached(a) == Range(attacker[a].reached_attack_steps)

\* S contains a's reached steps and every viable node with some parent in S
\* and, when the node is and-kind, all parents in S.
ClosedFor(a, S) ==
    /\ Reached(a) \subseteq S
    /\ \A n \in InGraph :
          ( /\ node[n].is_viable
            /\ Range(node[n].parents) \cap S # {}
            /\ (node[n].type = "and" => Range(node[n].parents) \subseteq S) )
          => n \in S

\* The least such set: what is in every such set.
LeastReachable(a) ==
    {n \in InGraph : \A S \in SUBSET InGraph : ClosedFor(a, S) => n \in S}

\* The graph N1 -> N4, N2 -> N3 -> N4 with N4 and-kind, all nodes viable.
ConvergentAnd ==
    /\ Len(nodes) = 4
    /\ \A n \in InGraph : node[n].is_viable
    /\ node[4].type = "and"
    /\ node[1].children = <<4>> /\ node[2].children = <<3>>
    /\ node[3].children = <<4>> /\ node[4].children = <<>>

\* C4: after calculate_reachability the nodes marked reachable by attacker
\* A, in reachable_by and in reachable_attack_steps alike, are the least set
\* that contains A's reached_attack_steps and every viable node with some
\* parent in it and, when and-kind, all parents in it, whatever the order in
\* which the work queue was served; in N1 -> N4, N2 -> N3 -> N4 with N4
\* and-kind, reaching {N1} leaves N4 out and reaching {N1, N2} brings N3 and
\* N4 in.
C4_LeastFixedPoint ==
    Calculated =>
        \A a \in Range(attackers) :
            /\ attacker[a].reachable_attack_steps = LeastReachable(a)
            /\ {n \in InGraph : a \in node[n].reachable_by} = LeastReachable(a)
            /\ (ConvergentAnd /\ Reached(a) = {1})
                  => 4 \notin attacker[a].reachable_attack_steps
            /\ (ConvergentAnd /\ Reached(a) = {1, 2})
                  => {3, 4} \subseteq attacker[a].reachable_attack_steps

\* C4 witness: in the convergent graph one attacker has reached N1 alone
\* and the other N1 and N2, and the calculator has marked N4 for the latter.
C4_Witness ==
    /\ Calculated
    /\ ConvergentAnd
    /\ \E a \in Range(attackers), b \in Range(attackers) :
          /\ Reached(a) = {1}
          /\ Reached(b) = {1, 2}
          /\ 4 \in attacker[b].reachable_attack_steps

\* C5: after calculate_reachability a non-viable node that is in no
\* attacker's reached_attack_steps is reachable by no attacker.
C5_NonViableUnreachable ==
    Calculated =>
        \A n \in InGraph :
            ( /\ ~node[n].is_viable
              /\ \A a \in Range(attackers) : n \notin Reached(a) )
            => /\ node[n].reachable_by = {}
               /\ \A a \in Range(attackers) :
                     n \notin attacker[a].reachable_attack_steps

\* C5 witness: a non-viable and-kind node that nobody has compromised has
\* two parents, both reachable by the same attacker.
C5_Witness ==
    /\ Calculated
    /\ \E n \in InGraph, a \in Range(attackers) :
          /\ ~node[n].is_viable
          /\ node[n].type = "and"
          /\ \A b \in Range(attackers) : n \notin Reached(b)
          /\ Len(node[n].parents) = 2
          /\ \A q \in Range(node[n].parents) : a \in node[q].reachable_by

\* The nodes that can be come to from the set S over children edges, S
\* included.
Descendants(S) ==
    LET RECURSIVE D(_)
        D(T) == LET U == T \cup UNION {Range(node[n].children) : n \in T}
                IN  IF U = T THEN T ELSE D(U)
    IN  D(S)

\* C6: calculate_reachability computes from scratch: whatever the derived
\* sets held before, afterwards a node is reachable by an attacker only if
\* it is one of the attacker's current reached_attack_steps or comes after
\* one; an attacker whose reached_attack_steps is empty has an empty
\* reachable_attack_steps and no node is reachable by it.
C6_FromScratch ==
    Calculated =>
        \A a \in Range(attackers) :
            /\ attacker[a].reachable_attack_steps
                   \subseteq Descendants(Reached(a))
            /\ \A n \in InGraph :
                  a \in node[n].reachable_by => n \in Descendants(Reached(a))
            /\ Reached(a) = {} =>
                  /\ attacker[a].reachable_attack_steps = {}
                  /\ \A n \in InGraph : a \notin node[n].reachable_by

\* C6 witness: the invocation found nodes reachable by an attacker from an
\* earlier invocation, the attacker's reached_attack_steps is empty now, and
\* nothing is reachable by it any more.
C6_Witness ==
    /\ Calculated
    /\ \E a \in Range(attackers) :
          /\ \E n \in InGraph : <<a, n>> \in reach.before
          /\ Reached(a) = {}
          /\ attacker[a].reachable_attack_steps = {}

\* C11 (as claimed): when generation fails because a reaches step expression
\* names a target no node has, the error raised is
\* AttackGraphStepExpressionError and no other kind.
C11_StepExpressionErrorKind ==
    (result.op = "_generate_graph" /\ result.raised # NoError)
        => result.raised = "AttackGraphStepExpressionError"

\* The full name an entry point of the model names.
EntryPointName(ep) == ep.asset \o ":" \o ep.attack_step

\* C12 (as claimed): attach_attackers does not raise on an entry point that
\* names no node: every attacker of the model is added to the graph and has
\* compromised each of its entry points that the graph does have.
C12_MissingEntryPointSkipped ==
    (result.op = "attach_attackers") =>
        LET infos == model[1].attackers
            k == Len(attackers) - Len(infos)
        IN  /\ result.raised = NoError
            /\ k >= 0
            /\ \A i \in DOMAIN infos : \A j \in DOMAIN infos[i].entry_points :
                  LET n == get_node_by_full_name(
                               EntryPointName(infos[i].entry_points[j]))
                  IN  n # NoneNode =>
                        n \in Range(attacker[attackers[k + i]].reached_attack_steps)

\* C13 (as claimed): compromise and undo_compromise leave the entry_points
\* of every attacker as they were.
C13_EntryPointsFrame ==
    [][ ( /\ result'.op \in {"compromise", "undo_compromise"}
          /\ calls' = calls + 1 )
        => \A a \in 1..aalloc :
              EntryPoints(attacker'[a]) = EntryPoints(attacker[a]) ]_vars

\* C14 (as claimed): every node in an attacker's entry_points is in its
\* reached_attack_steps, for every attacker of the graph.
C14_EntryPointsReached ==
    \A a \in Range(attackers) :
        Range(EntryPoints(attacker[a]))
            \subseteq Range(attacker[a].reached_attack_steps)

\* C15 (as claimed): after remove_attacker(a) returns, a's
\* reached_attack_steps is empty, no node has a in compromised_by, and a is
\* neither in the attacker list nor found by id.
C15_RemoveAttackerUndoesAll ==
    (result.op = "remove_attacker" /\ result.raised = NoError) =>
        LET a == result.attacker
        IN  /\ attacker[a].reached_attack_steps = <<>>
            /\ \A n \in 1..nalloc : a \notin Range(node[n].compromised_by)
            /\ a \notin Range(attackers)
            /\ \A i \in DOMAIN id_to_attacker : id_to_attacker[i] # a

\* The targets an expression evaluates to on the target list of the call.
Operand(e) ==
    Eval(ExprWorlds[evaluation.world], e, Lst(evaluation.target_assets), 0)

\* The call has returned the targets of a set operator of this type.
Returned(type) ==
    /\ evaluation.done
    /\ ExprTable[evaluation.expr].type = type
    /\ evaluation.r.err = NoError

\* C16 (as claimed): union(lhs, rhs) returns, as a set, the union of what
\* lhs and rhs evaluate to on the same target list, and no asset twice.
C16_UnionIsSetUnion ==
    Returned("union") =>
        LET x == ExprTable[evaluation.expr]
            out == evaluation.r.out.items
        IN  /\ Range(out) = Range(Operand(x.lhs).out.items)
                              \cup Range(Operand(x.rhs).out.items)
            /\ \A i \in DOMAIN out, j \in DOMAIN out : out[i] = out[j] => i = j

\* C17 (as claimed): difference(lhs, rhs) returns exactly the assets of the
\* left-hand result that do not occur in the right-hand result.
C17_DifferenceIsSetDifference ==
    Returned("difference") =>
        LET x == ExprTable[evaluation.expr]
        IN  Range(evaluation.r.out.items) =
                Range(Operand(x.lhs).out.items)
                    \ Range(Operand(x.rhs).out.items)

\* The paths of at least lo nodes along children edges of the graph
\* searched that visit no node twice.
SimplePaths(lo) ==
    LET g == search.graph
        N == Len(g.children)
    IN  { p \in UNION { [1..k -> 1..N] : k \in lo..N } :
            /\ \A i \in DOMAIN p, j \in DOMAIN p : p[i] = p[j] => i = j
            /\ \A i \in 1..(Len(p) - 1) : p[i + 1] \in Range(g.children[p[i]]) }

\* The simple paths from an attemptModify node over at least one
\* intermediate node to an attemptRead node.
ModifyToRead ==
    { p \in SimplePaths(3) :
        /\ search.graph.name[p[1]] = "attemptModify"
        /\ search.graph.name[p[Len(p)]] = "attemptRead" }

\* C18: for the pattern [name == attemptModify], [always true, 1 to
\* unbounded], [name == attemptRead], find_matches returns every simple
\* path from an attemptModify node over one or more intermediate nodes to an
\* attemptRead node, whole; so it returns some path when there is one.
C18_EveryModifyToReadPath ==
    (search.done /\ search.pattern = 1) =>
        /\ ModifyToRead \subseteq Range(search.matching_paths)
        /\ (ModifyToRead # {} => search.matching_paths # <<>>)

\* The search has returned a path with two intermediate nodes, while the
\* graph also holds a shorter path.
C18_Witness ==
    /\ search.done
    /\ search.pattern = 1
    /\ \E p \in ModifyToRead : Len(p) = 4 /\ p \in Range(search.matching_paths)
    /\ \E p \in ModifyToRead : Len(p) = 3

\* The path splits into consecutive runs, one per condition in list order,
\* every node of a run satisfying its condition and the length of the run
\* within the condition's min_repeated and max_repeated.
RECURSIVE SplitsIntoRuns(_, _, _)
SplitsIntoRuns(g, conds, p) ==
    IF conds = <<>> THEN p = <<>>
    ELSE \E r \in 0..Len(p) :
            /\ r >= Head(conds).min_repeated
            /\ Head(conds).max_repeated # Unbounded
                  => r <= Head(conds).max_repeated
            /\ \A i \in 1..r : g.name[p[i]] \in Head(conds).names
            /\ SplitsIntoRuns(g, Tail(conds), SubSeq(p, r + 1, Len(p)))

\* C19 (as claimed): every path find_matches returns follows children
\* edges and splits into runs, one per condition in order, each run of
\* nodes satisfying its condition and of a length between the condition's
\* min_repeated and max_repeated.
C19_ReturnedPathsMatch ==
    search.done =>
        \A k \in DOMAIN search.matching_paths :
            LET p == search.matching_paths[k]
            IN  /\ \A i \in 1..(Len(p) - 1) :
                      p[i + 1] \in Range(search.graph.children[p[i]])
                /\ SplitsIntoRuns(search.graph,
                                  SearchPatterns[search.pattern], p)

\* The nodes of the graph for the attack step named step of the asset.
NodesFor(asset, step) ==
    { k \in DOMAIN nodes :
        node[nodes[k]].asset = asset /\ node[nodes[k]].name = step }

\* C20: graph generation creates exactly one node for every pair of an
\* asset of the model and an attack step of its type and no other node, the
\* node is found by the full name asset.name:step, and the node count is
\* the sum over the assets of the number of their attack steps.
C20_OneNodePerAssetStep ==
    (result.op = "_generate_graph") =>
        LET m == model[1]
        IN  /\ Len(nodes) = Len(m.assets) * Len(m.steps)
            /\ \A i \in DOMAIN m.assets, j \in DOMAIN m.steps :
                  /\ Cardinality(NodesFor(m.assets[i], m.steps[j].name)) = 1
                  /\ \E k \in NodesFor(m.assets[i], m.steps[j].name) :
                        get_node_by_full_name(
                            m.assets[i] \o ":" \o m.steps[j].name) = nodes[k]
            /\ \A k \in DOMAIN nodes :
                  \E i \in DOMAIN m.assets, j \in DOMAIN m.steps :
                      k \in NodesFor(m.assets[i], m.steps[j].name)

\* A graph has been generated from a model of two assets.
C20_Witness ==
    /\ result.op = "_generate_graph"
    /\ result.raised = NoError
    /\ Len(model[1].assets) = 2
    /\ Len(nodes) = 2

\* C21 (as claimed): every node of the loaded graph has the id its record
\* holds, so get_node_by_id(i) on the loaded graph gives the node that had
\* the id i in the graph saved.
C21_LoadKeepsIds ==
    (result.op = "_from_dict" /\ loaded.status = "ok") =>
        \A i \in DOMAIN nodes :
            /\ i \in DOMAIN loaded.nodes
            /\ loaded.nodes[i].id = node[nodes[i]].id
            /\ DictGet(loaded.id_to_node, node[nodes[i]].id) = i

\* The assets the field leads to from the assets S of the world w.
FieldStep(w, name, S) == UNION { Range(w.assoc[name][a]) : a \in S }

\* The assets reached from S by one or more applications of the field.
RECURSIVE Grow(_, _, _)
Grow(w, name, R) ==
    IF FieldStep(w, name, R) \subseteq R THEN R
    ELSE Grow(w, name, R \cup FieldStep(w, name, R))

ReachedByField(w, name, S) == Grow(w, name, FieldStep(w, name, S))

\* No asset of the world w is reached from itself over the field.
Acyclic(w, name) ==
    \A a \in DOMAIN w.types : a \notin ReachedByField(w, name, {a})

\* The field of the transitive expression the call evaluates.
TransitiveField ==
    ExprTable[ExprTable[evaluation.expr].stepExpression].name

\* C22: a transitive expression over a field whose associations have no
\* cycle returns, as a set, exactly the assets reached from some target by
\* one or more applications of the field.
C22_TransitiveClosure ==
    ( /\ evaluation.done
      /\ ExprTable[evaluation.expr].type = "transitive"
      /\ Acyclic(ExprWorlds[evaluation.world], TransitiveField) )
    => /\ evaluation.r.err = NoError
       /\ Range(evaluation.r.out.items) =
              ReachedByField(ExprWorlds[evaluation.world], TransitiveField,
                             Range(evaluation.target_assets))

\* A transitive expression has returned an asset that is two steps away
\* from the target and not associated with it.
C22_Witness ==
    /\ evaluation.done
    /\ ExprTable[evaluation.expr].type = "transitive"
    /\ Acyclic(ExprWorlds[evaluation.world], TransitiveField)
    /\ Len(evaluation.target_assets) = 1
    /\ \E a \in Range(evaluation.r.out.items) :
          a \notin FieldStep(ExprWorlds[evaluation.world], TransitiveField,
                             Range(evaluation.target_assets))

\* C23 (as claimed): the evaluation of a transitive expression ends, also
\* where the associations of its field form a cycle.
C23_TransitiveTerminates ==
    (evaluation.done /\ ExprTable[evaluation.expr].type = "transitive")
        => evaluation.r.err # "RecursionError"

\* C24 (as claimed): subType(inner, type) returns what inner evaluates to on
\* the same target list, without the assets whose type neither is nor
\* extends the type: nothing added, no asset more often, for target lists
\* of every length.
C24_SubTypeFilters ==
    ( /\ evaluation.done
      /\ ExprTable[evaluation.expr].type = "subType"
      /\ evaluation.r.err = NoError )
    => LET x == ExprTable[evaluation.expr]
           w == ExprWorlds[evaluation.world]
       IN  evaluation.r.out.items =
               SelectSeq(Operand(x.stepExpression).out.items,
                         LAMBDA a : w.types[a] = x.subType
                                    \/ <<w.types[a], x.subType>> \in w.extends)

\* C25 (as claimed): the evaluation of a step expression leaves the
\* target_assets list it was given with the elements it had, for every
\* kind of expression, also for a union or difference whose left-hand side
\* hands back the caller's list.
C25_TargetsUnchanged ==
    evaluation.done => evaluation.r.inp.items = evaluation.target_assets

\* Some node of the graph searched is reached from itself along children.
SearchGraphCyclic ==
    \E p \in SimplePaths(1) : p[1] \in Range(search.graph.children[p[Len(p)]])

\* C26: find_matches ends on every graph, also on graphs with cycles and
\* for patterns with an unbounded max_repeated: a path is never extended by
\* a node it holds, so no path returned holds a node twice or is longer
\* than the graph has nodes.
C26_SearchEndsSimplePaths ==
    search.done =>
        \A k \in DOMAIN search.matching_paths :
            LET p == search.matching_paths[k]
            IN  /\ \A i \in DOMAIN p, j \in DOMAIN p : p[i] = p[j] => i = j
                /\ Len(p) <= Len(search.graph.children)

\* A search with an unbounded condition has returned from a graph with a
\* cycle, with a path that goes through every node of the graph.
C26_Witness ==
    /\ search.done
    /\ SearchGraphCyclic
    /\ \E c \in DOMAIN SearchPatterns[search.pattern] :
          SearchPatterns[search.pattern][c].max_repeated = Unbounded
    /\ \E k \in DOMAIN search.matching_paths :
          Len(search.matching_paths[k]) = Len(search.graph.children)

\* C27 (as claimed): after remove_node(n) no attacker of the graph holds n
\* in its reached_attack_steps or its entry_points, also when n had been
\* compromised before.
C27_RemovedFromAttackers ==
    (result.op = "remove_node" /\ result.raised = NoError) =>
        \A a \in Range(attackers) :
            /\ result.node \notin Range(attacker[a].reached_attack_steps)
            /\ result.node \notin Range(EntryPoints(attacker[a]))

\* C28 (as claimed): an add_node that raises because its id is in use
\* leaves the node list, both indices and the next-id counter as they were.
C28_RejectedAddNodeNoChange ==
    [][ ( /\ result'.op = "add_node"
          /\ calls' = calls + 1
          /\ result'.raised = "ValueError" )
        => ( /\ nodes' = nodes
             /\ id_to_node' = id_to_node
             /\ full_name_to_node' = full_name_to_node
             /\ next_node_id' = next_node_id ) ]_vars

\* C29 (as claimed): get_node_by_id and get_node_by_full_name return
\* exactly the nodes of the node list, and get_attacker_by_id exactly the
\* attackers of the attacker list, after any sequence of calls; after
\* regenerate_graph no node of the previous generation is returned.
C29_IndicesMatchLists ==
    /\ Range(id_to_node) = Range(nodes)
    /\ Range(full_name_to_node) = Range(nodes)
    /\ Range(id_to_attacker) = Range(attackers)

\* C30 (as claimed): on a graph without cycles find_matches of
\* maltoolbox.patterns returns the same set of paths as find_matches of
\* maltoolbox.patternfinder, and every path it returns is a list of its own
\* holding the nodes of that one match.
C30_ModulesAgree ==
    (search.done /\ search.patterns_done /\ ~SearchGraphCyclic) =>
        LET returned == search.patterns.matching_paths
        IN  /\ search.patterns.err = NoError
            /\ {returned[i].nodes : i \in DOMAIN returned}
                   = Range(search.matching_paths)
            /\ \A i \in DOMAIN returned, j \in DOMAIN returned :
                  returned[i].list = returned[j].list => i = j
====
